---- MODULE Spec2Model ----
(***************************************************************************)
(* A model of the libeval expression compiler and its virtual machine:     *)
(* COMPILER::Compile (token loop, tokenizer, parser step), the iterative   *)
(* code generator COMPILER::generateUCode, and UCODE::Run / UOP::Exec.     *)
(* Source text is a sequence of one-character strings, cursor positions    *)
(* are 0-based as in the code, tree nodes live in a heap indexed by node   *)
(* id (0 is the null pointer), doubles are exact rationals n/d together    *)
(* with the IEEE specials (d = 0).                                         *)
(***************************************************************************)
EXTENDS Integers, Sequences, FiniteSets, TLC

\* ------------------------------------------------------------------------
\* Bounds of the model
\* ------------------------------------------------------------------------
\* longest source text enumerated character by character
MaxLen == 3
\* number of Compile calls on the one compiler instance
MaxCompiles == 2
\* number of Run calls on a compiled program
MaxRuns == 1

\* ------------------------------------------------------------------------
\* Characters
\* ------------------------------------------------------------------------
NUL == "NUL"

Digits == {"0", "1", "2", "3", "4", "5", "6", "7", "8", "9"}

Alphas == {"a", "b", "c", "d", "e", "f", "g", "h", "i", "j", "k", "l", "m",
           "n", "o", "p", "q", "r", "s", "t", "u", "v", "w", "x", "y", "z"}

isdigit(c) == c \in Digits

isalpha(c) == c \in Alphas

isalnum(c) == isdigit(c) \/ isalpha(c)

\* ------------------------------------------------------------------------
\* Doubles: n/d in lowest terms with d > 0; d = 0 encodes +Inf (n = 1),
\* -Inf (n = -1) and NaN (n = 0).
\* ------------------------------------------------------------------------
Abs(i) == IF i < 0 THEN -i ELSE i

Sgn(i) == IF i < 0 THEN -1 ELSE IF i > 0 THEN 1 ELSE 0

RECURSIVE Gcd(_, _)
Gcd(a, b) == IF b = 0 THEN a ELSE Gcd(b, a % b)

Rat(n, d) ==
    IF d = 0 THEN [n |-> Sgn(n), d |-> 0]
    ELSE LET g == Gcd(Abs(n), Abs(d))
         IN  [n |-> Sgn(d) * (n \div g), d |-> Abs(d) \div g]

Num(i) == [n |-> i, d |-> 1]

NaN == [n |-> 0, d |-> 0]

IsNaN(x) == x.d = 0 /\ x.n = 0

IsInf(x) == x.d = 0 /\ x.n # 0

DAdd(x, y) ==
    IF IsNaN(x) \/ IsNaN(y) THEN NaN
    ELSE IF IsInf(x) THEN (IF IsInf(y) /\ y.n # x.n THEN NaN ELSE x)
    ELSE IF IsInf(y) THEN y
    ELSE Rat(x.n * y.d + y.n * x.d, x.d * y.d)

DNeg(x) == [n |-> -x.n, d |-> x.d]

DSub(x, y) == DAdd(x, DNeg(y))

DMul(x, y) ==
    IF IsNaN(x) \/ IsNaN(y) THEN NaN
    ELSE IF IsInf(x) \/ IsInf(y) THEN Rat(Sgn(x.n) * Sgn(y.n), 0)
    ELSE Rat(x.n * y.n, x.d * y.d)

DDiv(x, y) ==
    IF IsNaN(x) \/ IsNaN(y) THEN NaN
    ELSE IF IsInf(x) THEN (IF IsInf(y) THEN NaN
                           ELSE Rat(x.n * (IF y.n < 0 THEN -1 ELSE 1), 0))
    ELSE IF IsInf(y) THEN Num(0)
    ELSE IF y.n = 0 THEN Rat(Sgn(x.n), 0)
    ELSE Rat(x.n * y.d, x.d * y.n)

DLess(x, y) ==
    IF IsNaN(x) \/ IsNaN(y) THEN FALSE
    ELSE IF IsInf(x) /\ IsInf(y) THEN x.n < y.n
    ELSE x.n * y.d < y.n * x.d

DEq(x, y) == ~IsNaN(x) /\ ~IsNaN(y) /\ x = y

DLessEq(x, y) == DLess(x, y) \/ DEq(x, y)

DNonZero(x) == x.n # 0 \/ x.d = 0

Bool(b) == IF b THEN Num(1) ELSE Num(0)

\* wxAtof on a token text of digits with at most one '.'
DigitVal(c) == CASE c = "0" -> 0 [] c = "1" -> 1 [] c = "2" -> 2 [] c = "3" -> 3
                 [] c = "4" -> 4 [] c = "5" -> 5 [] c = "6" -> 6 [] c = "7" -> 7
                 [] c = "8" -> 8 [] c = "9" -> 9 [] OTHER -> 0

RECURSIVE AtofAcc(_, _, _, _, _)
AtofAcc(s, i, n, d, frac) ==
    IF i > Len(s) THEN Rat(n, d)
    ELSE IF isdigit(s[i])
         THEN AtofAcc(s, i + 1, n * 10 + DigitVal(s[i]), IF frac THEN d * 10 ELSE d, frac)
         ELSE IF s[i] = "." /\ ~frac THEN AtofAcc(s, i + 1, n, d, TRUE)
         ELSE Rat(n, d)

wxAtof(s) == AtofAcc(s, 1, 0, 1, FALSE)

\* ------------------------------------------------------------------------
\* VALUE
\* ------------------------------------------------------------------------
NullValue == [type |-> "null", num |-> Num(0), str |-> <<>>]

NumValue(x) == [type |-> "num", num |-> x, str |-> <<>>]

\* VALUE::Set( wxString ): the text and its numeric coercion
StrValue(s) == [type |-> "str", num |-> wxAtof(s), str |-> s]

\* VALUE::AsDouble
AsDouble(v) == v.num

\* VALUE::EqualTo: numeric by value, text by content, mixed never equal
EqualTo(a, b) ==
    IF a.type = "num" /\ b.type = "num" THEN DEq(a.num, b.num)
    ELSE IF a.type = "str" /\ b.type = "str" THEN a.str = b.str
    ELSE FALSE

\* ------------------------------------------------------------------------
\* TOKENIZER
\* ------------------------------------------------------------------------
\* TOKENIZER::GetChar: the character under the cursor, 0 past the end
GetChar(str, pos) == IF pos >= 0 /\ pos < Len(str) THEN str[pos + 1] ELSE NUL

\* TOKENIZER::Done
Done(str, pos) == pos >= Len(str)

\* TOKENIZER::GetChars: the run of characters satisfying cond from the cursor
GetChars(str, pos, cond(_)) ==
    IF pos >= Len(str) THEN <<>>
    ELSE LET stops == {q \in pos..Len(str) : q = Len(str) \/ ~cond(str[q + 1])}
             e     == CHOOSE q \in stops : \A r \in stops : q <= r
         IN  SubSeq(str, pos + 1, e)

MatchAhead(str, pos, match, stopCond(_)) ==
    LET remaining == Len(str) - pos
    IN  IF remaining < Len(match) THEN FALSE
        ELSE IF SubSeq(str, pos + 1, pos + Len(match)) = match
             THEN remaining = Len(match) \/ stopCond(str[pos + Len(match) + 1])
             ELSE FALSE

\* UNIT_RESOLVER::GetSupportedUnits of the host
SupportedUnits == << <<"m", "i", "l">>, <<"m", "m">>, <<"i", "n">> >>

\* a variant of NotAlnum: any character may follow a unit name
NotAlnumAny(c) == TRUE

NotAlnum(c) == ~isalnum(c)

\* the loop of COMPILER::resolveUnits over the unit names units, from the
\* name of index unitId: [id, pos]
RECURSIVE resolveUnitsIn(_, _, _, _)
resolveUnitsIn(units, str, pos, unitId) ==
    IF unitId >= Len(units) THEN [id |-> -1, pos |-> pos]
    ELSE IF MatchAhead(str, pos, units[unitId + 1], NotAlnum)
         THEN [id |-> unitId, pos |-> pos + Len(units[unitId + 1])]
         ELSE resolveUnitsIn(units, str, pos, unitId + 1)

\* COMPILER::resolveUnits: [id, pos]
resolveUnitsFrom(str, pos, unitId) == resolveUnitsIn(SupportedUnits, str, pos, unitId)

resolveUnits(str, pos) == resolveUnitsFrom(str, pos, 0)

m_localeDecimalSeparator == "."

isDecimalSeparator(ch) == ch = m_localeDecimalSeparator \/ ch = "." \/ ch = ","

\* the scan loop of the extractNumber lambda: [text, pos]
RECURSIVE extractScan(_, _, _, _)
extractScan(str, pos, current, haveSeparator) ==
    LET ch == GetChar(str, pos)
    IN  IF isDecimalSeparator(ch) /\ haveSeparator
        THEN [text |-> current, pos |-> pos]
        ELSE LET cur2 == Append(current, ch)
                 ch2  == GetChar(str, pos + 1)
             IN  IF isdigit(ch2) \/ isDecimalSeparator(ch2)
                 THEN extractScan(str, pos + 1, cur2,
                                  haveSeparator \/ isDecimalSeparator(ch))
                 ELSE [text |-> cur2, pos |-> pos + 1]

\* a variant of extractNumber: the separators are left as they were typed
extractNumberRaw(str, pos) ==
    extractScan(str, pos, <<>>, FALSE)

\* the extractNumber lambda: the scan, then every separator replaced by the
\* locale's
extractNumber(str, pos) ==
    LET r == extractScan(str, pos, <<>>, FALSE)
    IN  [text |-> [i \in 1..Len(r.text) |->
                      IF isDecimalSeparator(r.text[i]) THEN m_localeDecimalSeparator
                      ELSE r.text[i]],
         pos  |-> r.pos]

RECURSIVE SkipSpaces(_, _)
SkipSpaces(str, pos) ==
    IF GetChar(str, pos) = " " THEN SkipSpaces(str, pos + 1) ELSE pos

\* T_TOKEN
Tok(t, hasStr, s, idx) == [token |-> t, hasStr |-> hasStr, str |-> s, idx |-> idx]

SingleCharToken(ch) ==
    CASE ch = "+" -> "G_PLUS"
      [] ch = "!" -> "G_BOOL_NOT"
      [] ch = "-" -> "G_MINUS"
      [] ch = "*" -> "G_MULT"
      [] ch = "/" -> "G_DIVIDE"
      [] ch = "<" -> "G_LESS_THAN"
      [] ch = ">" -> "G_GREATER_THAN"
      [] ch = "(" -> "G_PARENL"
      [] ch = ")" -> "G_PARENR"
      [] ch = ";" -> "G_SEMCOL"
      [] ch = "." -> "G_STRUCT_REF"
      [] OTHER    -> "G_ENDS"

SingleChars == {"+", "!", "-", "*", "/", "<", ">", "(", ")", ";", "."}

NotEq(c) == c # "="

NotAmp(c) == c # "&"

NotBar(c) == c # "|"

IsIdentChar(c) == isalnum(c) \/ c = "_"

NotQuote(c) == c # "'"

LexResult(done, tok, pos, state, err, ch) ==
    [done |-> done, tok |-> tok, pos |-> pos, state |-> state, err |-> err, ch |-> ch]

\* COMPILER::lexDefault.  err: reportError was called for character ch.
lexDefault(str, pos0) ==
    IF Done(str, pos0)
    THEN LexResult(TRUE, Tok("G_ENDS", FALSE, <<>>, -1), pos0, "LS_DEFAULT", FALSE, NUL)
    ELSE
    LET pos == SkipSpaces(str, pos0)
        ch  == GetChar(str, pos)
        un  == resolveUnits(str, pos)
        two(t) == LexResult(TRUE, Tok(t, FALSE, <<>>, -1), pos + 2, "LS_DEFAULT", FALSE, NUL)
    IN  IF ch = NUL
        THEN LexResult(TRUE, Tok("G_ENDS", FALSE, <<>>, -1), pos, "LS_DEFAULT", FALSE, NUL)
        ELSE IF isdigit(ch)
        THEN LET r == extractNumber(str, pos)
             IN  LexResult(TRUE, Tok("G_VALUE", TRUE, r.text, -1), r.pos, "LS_DEFAULT", FALSE, NUL)
        ELSE IF un.id >= 0
        THEN LexResult(TRUE, Tok("G_UNIT", FALSE, <<>>, un.id), un.pos, "LS_DEFAULT", FALSE, NUL)
        ELSE IF ch = "'"
        THEN LexResult(FALSE, Tok("G_ENDS", FALSE, <<>>, -1), pos + 1, "LS_STRING", FALSE, NUL)
        ELSE IF isalpha(ch) \/ ch = "_"
        THEN LET current == GetChars(str, pos, IsIdentChar)
             IN  LexResult(TRUE, Tok("G_IDENTIFIER", TRUE, current, -1),
                           pos + Len(current), "LS_DEFAULT", FALSE, NUL)
        ELSE IF MatchAhead(str, pos, <<"=", "=">>, NotEq) THEN two("G_EQUAL")
        ELSE IF MatchAhead(str, pos, <<"!", "=">>, NotEq) THEN two("G_NOT_EQUAL")
        ELSE IF MatchAhead(str, pos, <<"<", "=">>, NotEq) THEN two("G_LESS_EQUAL_THAN")
        ELSE IF MatchAhead(str, pos, <<">", "=">>, NotEq) THEN two("G_GREATER_EQUAL_THAN")
        ELSE IF MatchAhead(str, pos, <<"&", "&">>, NotAmp) THEN two("G_BOOL_AND")
        ELSE IF MatchAhead(str, pos, <<"|", "|">>, NotBar) THEN two("G_BOOL_OR")
        ELSE LexResult(TRUE, Tok(SingleCharToken(ch), FALSE, <<>>, -1), pos + 1,
                       "LS_DEFAULT", ch \notin SingleChars, ch)

\* COMPILER::lexString
lexString(str, pos) ==
    LET s == GetChars(str, pos, NotQuote)
    IN  LexResult(TRUE, Tok("G_STRING", TRUE, s, -1), pos + Len(s) + 1, "LS_DEFAULT", FALSE, NUL)

\* COMPILER::getToken: run the lexer of the current mode until a token is done
RECURSIVE getTokenFrom(_, _, _)
getTokenFrom(str, pos, state) ==
    LET r == IF state = "LS_DEFAULT" THEN lexDefault(str, pos) ELSE lexString(str, pos)
    IN  IF r.done THEN r ELSE getTokenFrom(str, r.pos, r.state)

getToken(str, pos, state) == getTokenFrom(str, pos, state)

\* ------------------------------------------------------------------------
\* VAR_REF, UOP, TREE_NODE
\* ------------------------------------------------------------------------
\* a VAR_REF pointer; valid = FALSE is the null pointer
NullRef == [valid |-> FALSE, item |-> <<>>, prop |-> <<>>, type |-> "VT_UNDEFINED"]

VarRef(item, prop, type) == [valid |-> TRUE, item |-> item, prop |-> prop, type |-> type]

\* a UOP; func = <<>> is the empty function reference
MkUop(op, value, ref, func) == [op |-> op, value |-> value, ref |-> ref, func |-> func]

NoUop == MkUop("none", NullValue, NullRef, <<>>)

\* newNode: a fresh TREE_NODE
newNode(op, hasStr, str, idx, srcPos) ==
    [op |-> op, hasStr |-> hasStr, str |-> str, idx |-> idx,
     leaf0 |-> 0, leaf1 |-> 0, isTerminal |-> FALSE, isVisited |-> FALSE,
     srcPos |-> srcPos, uop |-> NoUop]

\* TREE_NODE::SetUop( op, double )
SetUopNum(node, aOp, aValue) == [node EXCEPT !.uop = MkUop(aOp, NumValue(aValue), NullRef, <<>>)]

\* TREE_NODE::SetUop( op, wxString )
SetUopStr(node, aOp, aValue) == [node EXCEPT !.uop = MkUop(aOp, StrValue(aValue), NullRef, <<>>)]

\* TREE_NODE::SetUop( op, VAR_REF )
SetUopRef(node, aOp, aRef) == [node EXCEPT !.uop = MkUop(aOp, NullValue, aRef, <<>>)]

\* TREE_NODE::SetUop( op, FUNC_CALL_REF, VAR_REF )
SetUopFunc(node, aOp, aFunc, aRef) == [node EXCEPT !.uop = MkUop(aOp, NullValue, aRef, aFunc)]

\* ------------------------------------------------------------------------
\* Parser: a shift-reduce machine over the token stream with one token of
\* lookahead.  A tree node is created by the reduction that recognises it,
\* that is during the Parse call of the following token.
\* ------------------------------------------------------------------------
BinaryTokens == {"G_PLUS", "G_MINUS", "G_MULT", "G_DIVIDE", "G_LESS_THAN",
                 "G_GREATER_THAN", "G_LESS_EQUAL_THAN", "G_GREATER_EQUAL_THAN",
                 "G_EQUAL", "G_NOT_EQUAL", "G_BOOL_AND", "G_BOOL_OR"}

TreeOp(t) ==
    CASE t = "G_PLUS" -> "TR_OP_ADD"
      [] t = "G_MINUS" -> "TR_OP_SUB"
      [] t = "G_MULT" -> "TR_OP_MUL"
      [] t = "G_DIVIDE" -> "TR_OP_DIV"
      [] t = "G_LESS_THAN" -> "TR_OP_LESS"
      [] t = "G_GREATER_THAN" -> "TR_OP_GREATER"
      [] t = "G_LESS_EQUAL_THAN" -> "TR_OP_LESS_EQUAL"
      [] t = "G_GREATER_EQUAL_THAN" -> "TR_OP_GREATER_EQUAL"
      [] t = "G_EQUAL" -> "TR_OP_EQUAL"
      [] t = "G_NOT_EQUAL" -> "TR_OP_NOT_EQUAL"
      [] t = "G_BOOL_AND" -> "TR_OP_BOOL_AND"
      [] t = "G_BOOL_OR" -> "TR_OP_BOOL_OR"
      [] OTHER -> "TR_OP_BOOL_NOT"

\* precedence of a token as lookahead or as stacked operator
Prec(t) ==
    CASE t \in {"G_MULT", "G_DIVIDE"} -> 6
      [] t \in {"G_PLUS", "G_MINUS"} -> 5
      [] t \in {"G_LESS_THAN", "G_GREATER_THAN", "G_LESS_EQUAL_THAN",
                "G_GREATER_EQUAL_THAN"} -> 4
      [] t \in {"G_EQUAL", "G_NOT_EQUAL"} -> 3
      [] t = "G_BOOL_AND" -> 2
      [] t = "G_BOOL_OR" -> 1
      [] OTHER -> 0

TokEntry(tok) == [k |-> "tok", tok |-> tok, node |-> 0]

NtEntry(id) == [k |-> "nt", tok |-> Tok("nt", FALSE, <<>>, -1), node |-> id]

IsTok(e, t) == e.k = "tok" /\ e.tok.token = t

IsNt(e) == e.k = "nt"

IsBinTok(e) == e.k = "tok" /\ e.tok.token \in BinaryTokens

Drop(ps, k) == SubSeq(ps, 1, Len(ps) - k)

\* the reductions possible before token la is shifted; st = [ps, heap]
RECURSIVE ParseReduce(_, _, _)
ParseReduce(st, la, srcPos) ==
    LET ps   == st.ps
        n    == Len(ps)
        hp   == st.heap
        id   == Len(hp) + 1
        top  == ps[n]
        top1 == ps[n - 1]
        top2 == ps[n - 2]
        top3 == ps[n - 3]
        go(ps2, hp2) == ParseReduce([ps |-> ps2, heap |-> hp2], la, srcPos)
    IN  IF n >= 1 /\ IsTok(top, "G_VALUE") /\ la # "G_UNIT"
        THEN go(Append(Drop(ps, 1), NtEntry(id)),
                Append(hp, newNode("TR_NUMBER", TRUE, top.tok.str, -1, srcPos)))
        ELSE IF n >= 2 /\ IsTok(top, "G_UNIT") /\ IsTok(top1, "G_VALUE")
        THEN go(Append(Drop(ps, 2), NtEntry(id)),
                hp \o << [newNode("TR_NUMBER", TRUE, top1.tok.str, -1, srcPos)
                             EXCEPT !.leaf0 = id + 1],
                         newNode("TR_UNIT", FALSE, <<>>, top.tok.idx, srcPos) >>)
        ELSE IF n >= 1 /\ IsTok(top, "G_STRING")
        THEN go(Append(Drop(ps, 1), NtEntry(id)),
                Append(hp, newNode("TR_STRING", TRUE, top.tok.str, -1, srcPos)))
        ELSE IF n >= 1 /\ IsTok(top, "G_IDENTIFIER")
                /\ ~(la = "G_PARENL" /\ n >= 2 /\ IsTok(top1, "G_STRUCT_REF"))
        THEN go(Append(Drop(ps, 1), NtEntry(id)),
                Append(hp, newNode("TR_IDENTIFIER", TRUE, top.tok.str, -1, srcPos)))
        ELSE IF n >= 4 /\ IsTok(top, "G_PARENR") /\ IsNt(top1) /\ IsTok(top2, "G_PARENL")
                /\ IsTok(top3, "G_IDENTIFIER")
        THEN go(Append(Drop(ps, 4), NtEntry(id)),
                hp \o << [newNode("TR_OP_FUNC_CALL", FALSE, <<>>, -1, srcPos)
                             EXCEPT !.leaf0 = id + 1, !.leaf1 = top1.node],
                         newNode("TR_IDENTIFIER", TRUE, top3.tok.str, -1, srcPos) >>)
        ELSE IF n >= 3 /\ IsTok(top, "G_PARENR") /\ IsNt(top1) /\ IsTok(top2, "G_PARENL")
        THEN go(Append(Drop(ps, 3), top1), hp)
        ELSE IF n >= 3 /\ IsNt(top) /\ IsTok(top1, "G_STRUCT_REF") /\ IsNt(top2)
        THEN go(Append(Drop(ps, 3), NtEntry(id)),
                Append(hp, [newNode("TR_STRUCT_REF", FALSE, <<>>, -1, srcPos)
                               EXCEPT !.leaf0 = top2.node, !.leaf1 = top.node]))
        ELSE IF n >= 2 /\ IsNt(top) /\ IsTok(top1, "G_BOOL_NOT") /\ la # "G_STRUCT_REF"
        THEN go(Append(Drop(ps, 2), NtEntry(id)),
                Append(hp, [newNode("TR_OP_BOOL_NOT", FALSE, <<>>, -1, srcPos)
                               EXCEPT !.leaf0 = top.node]))
        ELSE IF n >= 3 /\ IsNt(top) /\ IsBinTok(top1) /\ IsNt(top2)
                /\ la # "G_STRUCT_REF" /\ Prec(top1.tok.token) >= Prec(la)
        THEN go(Append(Drop(ps, 3), NtEntry(id)),
                Append(hp, [newNode(TreeOp(top1.tok.token), FALSE, <<>>, -1, srcPos)
                               EXCEPT !.leaf0 = top2.node, !.leaf1 = top.node]))
        ELSE st

\* may token la be shifted on parser stack ps
CanShift(ps, hp, la) ==
    LET n    == Len(ps)
        top  == ps[n]
        top1 == ps[n - 1]
        operandNext == n = 0 \/ IsBinTok(top) \/ IsTok(top, "G_BOOL_NOT")
                             \/ IsTok(top, "G_PARENL")
    IN  CASE la \in {"G_VALUE", "G_STRING", "G_BOOL_NOT"} -> operandNext
          [] la = "G_IDENTIFIER" -> operandNext \/ (n >= 1 /\ IsTok(top, "G_STRUCT_REF"))
          [] la = "G_PARENL" -> operandNext \/ (n >= 1 /\ IsTok(top, "G_IDENTIFIER"))
          [] la = "G_UNIT" -> n >= 1 /\ IsTok(top, "G_VALUE")
          [] la \in BinaryTokens -> n >= 1 /\ IsNt(top)
          [] la = "G_PARENR" -> n >= 2 /\ IsNt(top) /\ IsTok(top1, "G_PARENL")
          [] la = "G_STRUCT_REF" -> n >= 1 /\ IsNt(top) /\ hp[top.node].op = "TR_IDENTIFIER"
          [] OTHER -> FALSE

\* Parse( m_parser, tok.token, tok, this ): the parser step for one token.
\* Result: parser stack, heap, tree root, parseFinished, syntax error flag.
Parse(ps0, hp0, tree0, fin0, tok, srcPos) ==
    LET st == ParseReduce([ps |-> ps0, heap |-> hp0], tok.token, srcPos)
        ps == st.ps
        res(ps2, tree2, fin2, err) ==
            [ps |-> ps2, heap |-> st.heap, tree |-> tree2, finished |-> fin2, err |-> err]
    IN  IF tok.token = "G_ENDS"
        THEN IF ps = <<>> THEN res(<<>>, tree0, TRUE, FALSE)
             ELSE IF Len(ps) = 1 /\ IsNt(ps[1]) THEN res(<<>>, ps[1].node, TRUE, FALSE)
             ELSE res(<<>>, tree0, fin0, TRUE)
        ELSE IF CanShift(ps, st.heap, tok.token)
             THEN res(Append(ps, TokEntry(tok)), tree0, fin0, FALSE)
             ELSE res(<<>>, tree0, fin0, TRUE)

\* ------------------------------------------------------------------------
\* The host: resolver bindings, variable values and functions
\* ------------------------------------------------------------------------
KnownItems == { <<"a">> }

KnownProps == { <<"a">> }

\* functions the host binds: f validates its argument, g accepts anything
KnownFuncs == { <<"f">>, <<"g">> }

\* UCODE::CreateVarRef: nothing for an unknown item, a reference of the
\* parse-error type for an unknown property of a known item
CreateVarRef(itemName, propName) ==
    IF itemName \notin KnownItems THEN NullRef
    ELSE IF propName = <<>> \/ propName \in KnownProps
         THEN VarRef(itemName, propName, "VT_NUMERIC")
         ELSE VarRef(itemName, propName, "VT_PARSE_ERROR")

\* UCODE::CreateFuncCall: the empty function for an unknown name
CreateFuncCall(functionName) ==
    IF functionName \in KnownFuncs THEN functionName ELSE <<>>

\* VAR_REF::GetValue
GetValue(ref) == IF ref.prop = <<>> THEN StrValue(ref.item) ELSE NumValue(Num(2))

Msg(kind, arg) == [kind |-> kind, arg |-> arg]

NoMsg == Msg("", <<>>)

\* ERROR_STATUS
NoError == [pendingError |-> FALSE, stage |-> "CST_NONE", message |-> NoMsg, srcPos |-> 0]

\* a variant of ContextReportError: the error tagged as a CodeGen error
ContextReportErrorCodeGen(c, aErrorMsg) ==
    [c EXCEPT !.error = [pendingError |-> TRUE, stage |-> "CST_CODEGEN",
                         message |-> aErrorMsg, srcPos |-> -1],
              !.callbacks = IF c.callbackSet THEN @ + 1 ELSE @]

\* CONTEXT::ReportError on the context c = [stack, error, callbackSet,
\* callbacks]: the error slot is set and the callback, if set, is invoked
ContextReportError(c, aErrorMsg) ==
    [c EXCEPT !.error = [pendingError |-> TRUE, stage |-> "CST_RUNTIME",
                         message |-> aErrorMsg, srcPos |-> -1],
              !.callbacks = IF c.callbackSet THEN @ + 1 ELSE @]

\* A host function called with (ctx, self): pops its argument, reports an
\* error on the context when it rejects the argument, pushes one result.
HostRejects(func, arg) == func = <<"f">> /\ (arg.type # "str" \/ arg.str # <<"x">>)

HostCall(func, c) ==
    LET n        == Len(c.stack)
        arg      == c.stack[n]
        reject   == HostRejects(func, arg)
        popped   == [c EXCEPT !.stack = SubSeq(@, 1, n - 1)]
        reported == IF reject THEN ContextReportError(popped, Msg("host", arg.str))
                    ELSE popped
    IN  [reported EXCEPT !.stack = Append(@, NumValue(Bool(~reject)))]

\* ------------------------------------------------------------------------
\* State
\* ------------------------------------------------------------------------
VARIABLES
    pc,              \* position of the caller: idle, lex, gen, compiled, run, ran, fault
    m_str,           \* TOKENIZER::m_str
    m_pos,           \* TOKENIZER::m_pos
    m_lexerState,    \* COMPILER::m_lexerState
    m_sourcePos,     \* COMPILER::m_sourcePos
    m_parseFinished, \* COMPILER::m_parseFinished
    m_tree,          \* COMPILER::m_tree, a node id or 0
    m_errorStatus,   \* COMPILER::m_errorStatus
    m_errorCallback, \* is COMPILER::m_errorCallback set
    heap,            \* the TREE_NODEs of the compiler (m_gcItems)
    pstack,          \* the stack of the parser m_parser
    stack,           \* the work stack of generateUCode
    ucode,           \* the UCODE passed to Compile: m_ucode
    compileResult,   \* what the last Compile call returned: none, true, false
    pfctx,           \* the preflight CONTEXT passed to Compile
    ctx,             \* the CONTEXT passed to Run
    ip,              \* index of the next instruction of Run
    runResult,       \* the VALUE Run returned
    nCompiles,       \* Compile calls so far
    nRuns,           \* Run calls on the current program
    log,             \* what the current Compile call did, in order
    pc2,             \* position of a second evaluation of the program: idle, run,
                     \* ran, fault
    ctx2,            \* the CONTEXT of the second evaluation
    ip2,             \* index of the next instruction of the second evaluation
    runResult2,      \* the VALUE the second evaluation returned
    prevCompile,     \* text, program and outcome of the Compile call before this
                     \* one, kept when this one compiles the same text
    drc              \* the annulus test of the design rule checker: its board
                     \* items, rules, position and reports

vars == <<pc, m_str, m_pos, m_lexerState, m_sourcePos, m_parseFinished, m_tree,
          m_errorStatus, m_errorCallback, heap, pstack, stack, ucode, compileResult,
          pfctx, ctx, ip, runResult, nCompiles, nRuns, log, pc2, ctx2, ip2,
          runResult2, prevCompile, drc>>

lexVars == <<m_str, m_pos, m_lexerState, m_sourcePos>>

runVars == <<ctx, ip, runResult, nRuns>>

run2Vars == <<pc2, ctx2, ip2, runResult2>>

\* no Compile call yet
NoCompile == [called |-> FALSE, str |-> <<>>, ucode |-> <<>>, result |-> "none",
              ran |-> FALSE, runResult |-> NullValue]

Ev(ev, a, b) == [ev |-> ev, a |-> a, b |-> b]

\* a new CONTEXT: empty stack, no error, no error callback
NewContext == [stack |-> <<>>, error |-> NoError, callbackSet |-> FALSE, callbacks |-> 0]

\* COMPILER::reportError: the new error slot
reportError(stage, aErrorMsg, aPos, sourcePos) ==
    [pendingError |-> TRUE, stage |-> stage, message |-> aErrorMsg,
     srcPos |-> IF aPos = -1 THEN sourcePos ELSE aPos]

\* the log entries of one reportError call
ReportEvents(stage, aPos, callback) ==
    <<Ev("report", stage, aPos)>> \o (IF callback THEN <<Ev("callback", stage, aPos)>> ELSE <<>>)

\* ------------------------------------------------------------------------
\* Code generator
\* ------------------------------------------------------------------------
\* factor of a unit into internal units
UnitFactor(unitId) == CASE unitId = 0 -> 25 [] unitId = 1 -> 1000 [] OTHER -> 25000

\* UNIT_RESOLVER::Convert
Convert(aString, unitId) == DMul(wxAtof(aString), Num(UnitFactor(unitId)))

\* the nodes of the tree under node id
RECURSIVE TreeNodes(_, _)
TreeNodes(hp, id) ==
    IF id = 0 THEN {}
    ELSE {id} \cup TreeNodes(hp, hp[id].leaf0) \cup TreeNodes(hp, hp[id].leaf1)

\* prepareTree
prepareTree(hp, root) ==
    LET reach == TreeNodes(hp, root)
        names == {hp[i].leaf0 : i \in {j \in reach : hp[j].op = "TR_OP_FUNC_CALL"}} \ {0}
    IN  [i \in DOMAIN hp |->
            IF i \in reach
            THEN [hp[i] EXCEPT !.isVisited = FALSE,
                               !.leaf0 = IF i \in names THEN 0 ELSE @,
                               !.leaf1 = IF i \in names THEN 0 ELSE @]
            ELSE hp[i]]

Rep(stage, msg, pos) == [stage |-> stage, msg |-> msg, pos |-> pos]

\* a variant of StructRefReports: the offsets taken without the name lengths
StructRefReportsRawPos(vref, itemName, itemPos, propName, propPos) ==
    IF ~vref.valid
    THEN <<Rep("CST_CODEGEN", Msg("item", itemName), itemPos)>>
    ELSE IF vref.type = "VT_PARSE_ERROR"
    THEN <<Rep("CST_CODEGEN", Msg("property", propName), propPos)>>
    ELSE <<>>

\* the reportError calls of the object.property case: the item is unknown,
\* or the property is; itemPos and propPos are the srcPos of the two leaves
StructRefReports(vref, itemName, itemPos, propName, propPos) ==
    IF ~vref.valid
    THEN <<Rep("CST_CODEGEN", Msg("item", itemName), itemPos - Len(itemName))>>
    ELSE IF vref.type = "VT_PARSE_ERROR"
    THEN <<Rep("CST_CODEGEN", Msg("property", propName), propPos - Len(propName))>>
    ELSE <<>>

\* a variant of NumberNodeValue: the unit child is ignored
NumberNodeValuePlain(hp, node) ==
    IF ~node.hasStr THEN Num(0)
    ELSE wxAtof(node.str)

\* the value of the literal a TR_NUMBER node pushes: converted by the unit
\* resolver when the first child is a unit, the plain number otherwise
NumberNodeValue(hp, node) ==
    IF ~node.hasStr THEN Num(0)
    ELSE IF node.leaf0 # 0 /\ hp[node.leaf0].op = "TR_UNIT"
         THEN Convert(node.str, hp[node.leaf0].idx)
         ELSE wxAtof(node.str)

\* a variant of ReplaceTop: the parameter below the call node
ReplaceTopCallLast(stk, call, param) ==
    SubSeq(stk, 1, Len(stk) - 1) \o <<param, call>>

\* the struct-ref node on top of the work stack replaced by its function-call
\* child and that child's parameter: pop_back, push_back, push_back
ReplaceTop(stk, call, param) ==
    SubSeq(stk, 1, Len(stk) - 1) \o <<call, param>>

\* the switch( node->op ) of one iteration of the generateUCode loop:
\* [heap, stack, reps, pf, pre] with reps the reportError calls made, in
\* order, and pre the preflight entry of the log
GenSwitch(hp, stk, pf) ==
    LET id    == stk[Len(stk)]
        node  == hp[id]
        l0    == node.leaf0
        l1    == node.leaf1
        out(hp2, stk2, reps, pf2, pre) ==
            [heap |-> hp2, stack |-> stk2, reps |-> reps, pf |-> pf2, pre |-> pre]
    IN  CASE node.op = "TR_OP_FUNC_CALL" ->
               out([hp EXCEPT ![id].isTerminal = TRUE], stk, <<>>, pf, <<>>)
          [] node.op = "TR_STRUCT_REF" /\ hp[l1].op = "TR_IDENTIFIER" ->
               LET itemName == hp[l0].str
                   propName == hp[l1].str
                   vref     == CreateVarRef(itemName, propName)
                   reps     == StructRefReports(vref, itemName, hp[l0].srcPos,
                                                propName, hp[l1].srcPos)
               IN  out([hp EXCEPT ![l0].isVisited = TRUE,
                                  ![l1].isVisited = TRUE,
                                  ![id] = [SetUopRef(node, "TR_UOP_PUSH_VAR", vref)
                                              EXCEPT !.isTerminal = TRUE]],
                       stk, reps, pf, <<>>)
          [] node.op = "TR_STRUCT_REF" /\ hp[l1].op = "TR_OP_FUNC_CALL" ->
               LET itemName == hp[l0].str
                   vref     == CreateVarRef(itemName, <<>>)
                   rep1     == IF ~vref.valid
                               THEN <<Rep("CST_CODEGEN", Msg("item", itemName),
                                          hp[l0].srcPos - Len(itemName))>>
                               ELSE <<>>
                   fname    == hp[l1].leaf0
                   param    == hp[l1].leaf1
                   functionName == hp[fname].str
                   func     == CreateFuncCall(functionName)
                   rep2     == IF func = <<>>
                               THEN <<Rep("CST_CODEGEN", Msg("function", functionName),
                                          hp[l0].srcPos + 1)>>
                               ELSE <<>>
                   paramStr == IF node.hasStr THEN node.str ELSE <<>>
                   pushed   == [pf EXCEPT !.stack = Append(@, StrValue(paramStr))]
                   called   == HostCall(func, pushed)
                   pf2      == [called EXCEPT !.stack = SubSeq(@, 1, Len(@) - 1)]
                   loc      == hp[param].srcPos - Len(paramStr)
                   rep3     == IF func # <<>> /\ ~pf2.error.pendingError
                               THEN <<Rep("CST_CODEGEN", pf2.error.message, loc - 1)>>
                               ELSE <<>>
                   pre      == IF func # <<>>
                               THEN <<Ev("preflight",
                                         IF HostRejects(func, StrValue(paramStr)) THEN "hosterror" ELSE "hostok",
                                         Len(rep3))>>
                               ELSE <<>>
               IN  out([hp EXCEPT ![l0].isVisited = TRUE,
                                  ![fname].isVisited = TRUE,
                                  ![param].isVisited = TRUE,
                                  ![l1] = [SetUopFunc(hp[l1], "TR_OP_METHOD_CALL", func, vref)
                                              EXCEPT !.isVisited = TRUE],
                                  ![id].isTerminal = FALSE],
                       ReplaceTop(stk, l1, param),
                       rep1 \o rep2 \o rep3,
                       IF func # <<>> THEN pf2 ELSE pf,
                       pre)
          [] node.op = "TR_STRUCT_REF" /\ hp[l1].op \notin {"TR_IDENTIFIER", "TR_OP_FUNC_CALL"} ->
               out(hp, stk, <<>>, pf, <<>>)
          [] node.op = "TR_NUMBER" ->
               LET unit  == l0 # 0 /\ hp[l0].op = "TR_UNIT"
                   value == NumberNodeValue(hp, node)
                   hp1   == IF node.hasStr /\ unit THEN [hp EXCEPT ![l0].isVisited = TRUE] ELSE hp
               IN  out([hp1 EXCEPT ![id] = [SetUopNum(node, "TR_UOP_PUSH_VALUE", value)
                                               EXCEPT !.isTerminal = TRUE]],
                       stk, <<>>, pf, <<>>)
          [] node.op = "TR_STRING" ->
               out([hp EXCEPT ![id] = [SetUopStr(node, "TR_UOP_PUSH_VALUE", node.str)
                                          EXCEPT !.isTerminal = TRUE]],
                   stk, <<>>, pf, <<>>)
          [] node.op = "TR_IDENTIFIER" ->
               LET vref == CreateVarRef(node.str, <<>>)
                   reps == IF ~vref.valid
                           THEN <<Rep("CST_CODEGEN", Msg("item", node.str),
                                      node.srcPos - Len(node.str))>>
                           ELSE <<>>
               IN  out([hp EXCEPT ![id] = [SetUopRef(node, "TR_UOP_PUSH_VALUE", vref)
                                              EXCEPT !.isTerminal = TRUE]],
                       stk, reps, pf, <<>>)
          [] OTHER ->
               out([hp EXCEPT ![id] = [SetUopNum(node, node.op, Num(0)) EXCEPT
                                          !.isTerminal = (l0 = 0 \/ hp[l0].isVisited)
                                                         /\ (l1 = 0 \/ hp[l1].isVisited)]],
                   stk, <<>>, pf, <<>>)

\* a variant of GenAfterSwitch: the right child is descended into first
GenAfterSwitchRightFirst(id, sw, code) ==
    LET hp   == sw.heap
        stk  == sw.stack
        l0   == sw.heap[id].leaf0
        l1   == sw.heap[id].leaf1
        out(hp2, stk2, code2) ==
            [heap |-> hp2, stack |-> stk2, ucode |-> code2, reps |-> sw.reps,
             pf |-> sw.pf, pre |-> sw.pre]
    IN  IF ~sw.heap[id].isTerminal
        THEN IF l1 # 0 /\ ~hp[l1].isVisited
             THEN out([hp EXCEPT ![l1].isVisited = TRUE], Append(stk, l1), code)
             ELSE IF l0 # 0 /\ ~hp[l0].isVisited
             THEN out([hp EXCEPT ![l0].isVisited = TRUE], Append(stk, l0), code)
             ELSE out(hp, stk, code)
        ELSE out([hp EXCEPT ![id].isVisited = TRUE, ![id].uop = NoUop],
                 SubSeq(stk, 1, Len(stk) - 1),
                 IF sw.heap[id].uop # NoUop THEN Append(code, sw.heap[id].uop) ELSE code)

\* the part of one iteration after the switch, for the node id on top of the
\* work stack: descend into an unvisited child, or emit the node's
\* instruction and pop it.  sw is the result of GenSwitch.
GenAfterSwitch(id, sw, code) ==
    LET hp   == sw.heap
        stk  == sw.stack
        l0   == sw.heap[id].leaf0
        l1   == sw.heap[id].leaf1
        out(hp2, stk2, code2) ==
            [heap |-> hp2, stack |-> stk2, ucode |-> code2, reps |-> sw.reps,
             pf |-> sw.pf, pre |-> sw.pre]
    IN  IF ~sw.heap[id].isTerminal
        THEN IF l0 # 0 /\ ~hp[l0].isVisited
             THEN out([hp EXCEPT ![l0].isVisited = TRUE], Append(stk, l0), code)
             ELSE IF l1 # 0 /\ ~hp[l1].isVisited
             THEN out([hp EXCEPT ![l1].isVisited = TRUE], Append(stk, l1), code)
             ELSE out(hp, stk, code)
        ELSE out([hp EXCEPT ![id].isVisited = TRUE, ![id].uop = NoUop],
                 SubSeq(stk, 1, Len(stk) - 1),
                 IF sw.heap[id].uop # NoUop THEN Append(code, sw.heap[id].uop) ELSE code)

\* one iteration of while( !stack.empty() ) in generateUCode:
\* [heap, stack, ucode, reps, pf, pre]
GenIteration(hp0, stk0, code, pf0) ==
    GenAfterSwitch(stk0[Len(stk0)], GenSwitch(hp0, stk0, pf0), code)

\* the error slot after the reportError calls reps
RECURSIVE ApplyReports(_, _, _)
ApplyReports(status, reps, sourcePos) ==
    IF reps = <<>> THEN status
    ELSE ApplyReports(reportError(reps[1].stage, reps[1].msg, reps[1].pos, sourcePos),
                      Tail(reps), sourcePos)

RECURSIVE ReportsLog(_, _)
ReportsLog(reps, callback) ==
    IF reps = <<>> THEN <<>>
    ELSE ReportEvents(reps[1].stage, reps[1].pos, callback) \o ReportsLog(Tail(reps), callback)

\* ------------------------------------------------------------------------
\* Virtual machine
\* ------------------------------------------------------------------------
BinaryOps == {"TR_OP_ADD", "TR_OP_SUB", "TR_OP_MUL", "TR_OP_DIV", "TR_OP_LESS",
              "TR_OP_GREATER", "TR_OP_LESS_EQUAL", "TR_OP_GREATER_EQUAL",
              "TR_OP_EQUAL", "TR_OP_NOT_EQUAL", "TR_OP_BOOL_AND", "TR_OP_BOOL_OR"}

UnaryOps == {"TR_OP_BOOL_NOT"}

\* a variant of EqualityResult: != computed as ==
EqualityResultSame(m_op, arg1, arg2) ==
    IF arg1 # NullValue /\ arg2 # NullValue /\ EqualTo(arg1, arg2) THEN Num(1) ELSE Num(0)

\* the TR_OP_EQUAL and TR_OP_NOT_EQUAL cases of UOP::Exec
EqualityResult(m_op, arg1, arg2) ==
    LET equal == arg1 # NullValue /\ arg2 # NullValue /\ EqualTo(arg1, arg2)
    IN  IF m_op = "TR_OP_EQUAL"
        THEN (IF equal THEN Num(1) ELSE Num(0))
        ELSE (IF equal THEN Num(0) ELSE Num(1))

\* a variant of PopTwo: the first popped taken as the left operand
PopTwoSwapped(stk) ==
    [arg2 |-> stk[Len(stk) - 1], arg1 |-> stk[Len(stk)], rest |-> SubSeq(stk, 1, Len(stk) - 2)]

\* a variant of PopTwo: only one value is popped
PopTwoOne(stk) ==
    [arg2 |-> stk[Len(stk)], arg1 |-> stk[Len(stk) - 1], rest |-> SubSeq(stk, 1, Len(stk) - 1)]

\* the two ctx->Pop() of a binary opcode: arg2 is popped first, arg1 second
PopTwo(stk) ==
    [arg2 |-> stk[Len(stk)], arg1 |-> stk[Len(stk) - 1], rest |-> SubSeq(stk, 1, Len(stk) - 2)]

\* a variant of OperandValue: a null operand is not a number
OperandValueNaN(arg) == IF arg # NullValue THEN AsDouble(arg) ELSE NaN

\* arg ? arg->AsDouble() : 0.0
OperandValue(arg) == IF arg # NullValue THEN AsDouble(arg) ELSE Num(0)

\* the switch( m_op ) over the binary opcodes in UOP::Exec; arg1 and arg2
\* are the popped VALUE pointers (NullValue is the null pointer)
BinaryResult(m_op, arg1, arg2) ==
    LET arg2Value == OperandValue(arg2)
        arg1Value == OperandValue(arg1)
    IN  CASE m_op = "TR_OP_ADD" -> DAdd(arg1Value, arg2Value)
          [] m_op = "TR_OP_SUB" -> DSub(arg1Value, arg2Value)
          [] m_op = "TR_OP_MUL" -> DMul(arg1Value, arg2Value)
          [] m_op = "TR_OP_DIV" -> DDiv(arg1Value, arg2Value)
          [] m_op = "TR_OP_LESS_EQUAL" -> Bool(DLessEq(arg1Value, arg2Value))
          [] m_op = "TR_OP_GREATER_EQUAL" -> Bool(DLessEq(arg2Value, arg1Value))
          [] m_op = "TR_OP_LESS" -> Bool(DLess(arg1Value, arg2Value))
          [] m_op = "TR_OP_GREATER" -> Bool(DLess(arg2Value, arg1Value))
          [] m_op \in {"TR_OP_EQUAL", "TR_OP_NOT_EQUAL"} -> EqualityResult(m_op, arg1, arg2)
          [] m_op = "TR_OP_BOOL_AND" -> Bool(DNonZero(arg1Value) /\ DNonZero(arg2Value))
          [] m_op = "TR_OP_BOOL_OR" -> Bool(DNonZero(arg1Value) \/ DNonZero(arg2Value))
          [] OTHER -> Num(0)

\* a variant of ExecUnary: the operand is popped and its negation pushed
ExecUnaryNegates(c) ==
    IF c.stack = <<>> THEN c
    ELSE [c EXCEPT !.stack = Append(SubSeq(@, 1, Len(@) - 1),
                                    NumValue(Bool(~DNonZero(OperandValue(@[Len(@)])))))]

\* the context after the branch of UOP::Exec for the unary opcodes, which
\* holds a comment and no statement
ExecUnary(c) == c

\* UOP::Exec on context c: [ctx, fault]; fault is a null dereference, a call of
\* an empty function or a pop from an empty stack
Exec(uop, c) ==
    LET n == Len(c.stack)
        ok(c2) == [ctx |-> c2, fault |-> FALSE]
        bad    == [ctx |-> c, fault |-> TRUE]
    IN  CASE uop.op = "TR_UOP_PUSH_VAR" ->
               IF uop.ref.valid
               THEN ok([c EXCEPT !.stack = Append(@, GetValue(uop.ref))])
               ELSE bad
          [] uop.op = "TR_UOP_PUSH_VALUE" ->
               ok([c EXCEPT !.stack = Append(@, uop.value)])
          [] uop.op = "TR_OP_METHOD_CALL" ->
               IF uop.func # <<>> /\ n >= 1 THEN ok(HostCall(uop.func, c)) ELSE bad
          [] uop.op \in BinaryOps ->
               IF n >= 2
               THEN LET p == PopTwo(c.stack)
                    IN  ok([c EXCEPT !.stack = Append(p.rest,
                                        NumValue(BinaryResult(uop.op, p.arg1, p.arg2)))])
               ELSE bad
          [] uop.op \in UnaryOps -> ok(ExecUnary(c))
          [] OTHER -> ok(c)

\* ------------------------------------------------------------------------
\* Source texts given to Compile
\* ------------------------------------------------------------------------
Chars == {"1", "a", "b", "m", ".", " ", "'", "+", "#", "(", ")"}

\* every text of at most MaxLen characters
ShortTexts == UNION {[1..n -> Chars] : n \in 0..MaxLen}

ValAtoms == { <<"0">>, <<"1">>, <<"2">>, <<"'", "x", "'">>, <<"'", "y", "'">>,
              <<"a">>, <<"a", ".", "a">> }

OpTexts == { <<"+">>, <<"-">>, <<"*">>, <<"/">>, <<"<">>, <<">">>, <<"<", "=">>,
             <<">", "=">>, <<"=", "=">>, <<"!", "=">>, <<"&", "&">>, <<"|", "|">> }

CallAtoms == { <<i, ".", f, "(", "'", "x", "'", ")">> : i \in {"a", "b"}, f \in {"f", "g", "h"} }

ErrAtoms == { <<"b">>, <<"a", ".", "b">>, <<"b", ".", "a">>, <<"b", ".", "b">> }

\* item.prop references with a space before, inside or after
SpacedRefs == { pre \o <<i>> \o s1 \o <<".">> \o s2 \o <<p>> \o post :
                    pre \in {<<>>, <<" ">>}, i \in {"a", "b"}, s1 \in {<<>>, <<" ">>},
                    s2 \in {<<>>, <<" ">>}, p \in {"a", "b"}, post \in {<<>>, <<" ">>} }
               \cup { <<"b", "b", ".", "a">>, <<"a", ".", "a", "b">>, <<" ", "a", "a", ".", "a">> }

MixAtoms == CallAtoms \cup ErrAtoms \cup { <<"1">> }

\* expressions that exercise the generator and the virtual machine
GenTexts ==
    { x \o o \o y : x \in ValAtoms, o \in OpTexts, y \in ValAtoms }
    \cup MixAtoms
    \cup SpacedRefs
    \cup { x \o <<"+">> \o y : x \in MixAtoms, y \in MixAtoms }
    \cup { <<"!">> \o x : x \in ValAtoms \cup CallAtoms }
    \cup { <<"1", "+", "2", "*", "2">>, <<"(", "1", "+", "2", ")", "*", "2">>,
           <<"2", "-", "1", "-", "1">>, <<"2", "m", "m">>, <<"2", "m", "m", "+", "1">>,
           <<"1", ".", "5", "+", "1">>, <<"1", " ", "<", " ", "2", " ", "&", "&", " ", "a", ".", "a">>,
           <<"a", ".", "g", "(", "1", "+", "2", ")">>,
           <<"a", ".", "f", "(", "'", "y", "'", ")">>,
           <<"a", ".", "g", "(", "2", ")">>,
           <<"1", ",", "5">>, <<"1", ",", "5", ".", "2">>, <<"1", ".", "5", ",", "2">>,
           <<"a", ".", "f", "(", "'", "y", "'", ")", "+", "1">>,
           <<"a", ".", "f", "(", "b", ".", "a", ")", "=", "=", "1">> }

Sources == ShortTexts \cup GenTexts

\* texts of the later Compile calls on the same instance
ReTexts == { <<>>, <<"1">>, <<"1", "+">>, <<"#">>, <<"a", ".", "b">>,
             <<"a", ".", "g", "(", "'", "x", "'", ")">> }

\* ------------------------------------------------------------------------
\* Construction
\* ------------------------------------------------------------------------
\* ------------------------------------------------------------------------
\* DRC_TEST_PROVIDER_ANNULUS
\* ------------------------------------------------------------------------
\* most items on a board
MaxItems == 2

\* int / int of C++: the quotient truncated towards zero
CDiv(a, b) == IF a >= 0 THEN a \div b ELSE -((-a) \div b)

\* a BOARD_ITEM with the constraint EvalRulesForItems gives for it
Item(isVia, width, drill, hasMin, min, hasMax, max) ==
    [isVia |-> isVia, width |-> width, drill |-> drill,
     hasMin |-> hasMin, min |-> min, hasMax |-> hasMax, max |-> max]

BoardItems ==
    { Item(FALSE, 0, 0, FALSE, 0, FALSE, 0) }
    \cup { Item(TRUE, w, 1, hasMin, 2, hasMax, 1) :
              w \in {3, 6}, hasMin \in BOOLEAN, hasMax \in BOOLEAN }

Boards == UNION { [1..n -> BoardItems] : n \in 0..MaxItems }

\* a variant of checkAnnulus: the maximum is not tested
checkAnnulusMinOnly(item) ==
    LET annulus  == CDiv(item.width - item.drill, 2)
        fail_min == item.hasMin /\ annulus < item.min
    IN  IF ~item.isVia THEN [checked |-> FALSE, report |-> FALSE, kind |-> "none"]
        ELSE [checked |-> TRUE, report |-> fail_min,
              kind |-> IF fail_min THEN "minimum" ELSE "none"]

\* the checkAnnulus lambda up to ReportWithMarker: is the item checked, is a
\* DRCE_ANNULUS item reported, and against which limit
checkAnnulus(item) ==
    LET annulus  == CDiv(item.width - item.drill, 2)
        fail_min == item.hasMin /\ annulus < item.min
        fail_max == item.hasMax /\ annulus > item.max
    IN  IF ~item.isVia THEN [checked |-> FALSE, report |-> FALSE, kind |-> "none"]
        ELSE [checked |-> TRUE, report |-> fail_min \/ fail_max,
              kind |-> IF fail_min THEN "minimum"
                       ELSE IF fail_max THEN "maximum" ELSE "none"]

\* the test before Run is called
DrcIdle == [pc |-> "idle", hasRules |-> FALSE, items |-> <<>>, handed |-> 0,
            reports |-> <<>>, result |-> "none"]

Init ==
    /\ pc = "idle"
    /\ m_str = <<>>
    /\ m_pos = 0
    /\ m_lexerState = "LS_DEFAULT"
    /\ m_sourcePos = 0
    /\ m_parseFinished = FALSE
    /\ m_tree = 0
    /\ m_errorStatus = NoError
    /\ m_errorCallback \in BOOLEAN
    /\ heap = <<>>
    /\ pstack = <<>>
    /\ stack = <<>>
    /\ ucode = <<>>
    /\ compileResult = "none"
    /\ pfctx = NewContext
    /\ ctx = NewContext
    /\ ip = 0
    /\ runResult = NullValue
    /\ nCompiles = 0
    /\ nRuns = 0
    /\ log = <<>>
    /\ pc2 = "idle"
    /\ ctx2 = NewContext
    /\ ip2 = 0
    /\ runResult2 = NullValue
    /\ prevCompile = NoCompile
    /\ drc = DrcIdle

\* ------------------------------------------------------------------------
\* COMPILER::Compile
\* ------------------------------------------------------------------------
\* a variant of EmptyProgramUop: the literal false
EmptyProgramUopZero == MkUop("TR_UOP_PUSH_VALUE", NumValue(Num(0)), NullRef, <<>>)

\* the instruction generateUCode emits when there is no tree: push 1.0
EmptyProgramUop == MkUop("TR_UOP_PUSH_VALUE", NumValue(Num(1)), NullRef, <<>>)

\* the entry of generateUCode: the empty-tree shortcut, or prepareTree and
\* the root pushed on the work stack
EnterGenerate(code, tree, hp, logNow) ==
    IF tree = 0
    THEN /\ ucode' = Append(code, EmptyProgramUop)
         /\ heap' = hp
         /\ stack' = <<>>
         /\ compileResult' = "true"
         /\ pc' = "compiled"
         /\ log' = Append(logNow, Ev("generate", "empty", 0))
    ELSE /\ ucode' = code
         /\ heap' = prepareTree(hp, tree)
         /\ stack' = <<tree>>
         /\ compileResult' = "none"
         /\ pc' = "gen"
         /\ log' = Append(logNow, Ev("generate", "tree", 0))

\* a variant of CompileProgram: Compile empties the program first
CompileProgramCleared(code) == <<>>

\* the instructions of aCode when generateUCode starts on it: neither Compile
\* nor generateUCode removes what the UCODE given to Compile holds
CompileProgram(code) == code

\* Compile( aString, aCode, aPreflightContext ) up to the token loop, with a
\* new preflight CONTEXT; code is what the UCODE given as aCode holds and
\* prev the record kept of the call before
CompileBegin(aString, code, prev) ==
    /\ pc \in {"idle", "compiled", "ran", "fault"}
    /\ pc2 # "run"
    /\ nCompiles < MaxCompiles
    /\ pc2' = "idle"
    /\ ctx2' = NewContext
    /\ ip2' = 0
    /\ runResult2' = NullValue
    /\ nCompiles' = nCompiles + 1
    /\ m_str' = aString
    /\ m_pos' = 0
    /\ m_lexerState' = "LS_DEFAULT"
    /\ m_tree' = 0
    /\ pfctx' = NewContext
    /\ ctx' = NewContext
    /\ ip' = 0
    /\ runResult' = NullValue
    /\ nRuns' = 0
    /\ prevCompile' = prev
    /\ UNCHANGED drc
    /\ UNCHANGED <<m_sourcePos, m_errorStatus, m_errorCallback, pstack>>
    /\ IF aString = <<>>
       THEN /\ m_parseFinished' = TRUE
            /\ EnterGenerate(CompileProgram(code), 0, <<>>, <<>>)
       ELSE /\ m_parseFinished' = FALSE
            /\ ucode' = CompileProgram(code)
            /\ heap' = <<>>
            /\ stack' = <<>>
            /\ compileResult' = "none"
            /\ pc' = "lex"
            /\ log' = <<>>

\* the record of the Compile call that ends when the next one starts
CompileRecord ==
    [called |-> TRUE, str |-> m_str, ucode |-> ucode, result |-> compileResult,
     ran |-> pc = "ran", runResult |-> runResult]

\* Compile called with a new UCODE
CompileCall(aString) ==
    CompileBegin(aString, <<>>,
                 IF nCompiles > 0 /\ aString = m_str THEN CompileRecord ELSE NoCompile)

\* Compile called with the UCODE of the call before, which holds the
\* program that call left
CompileInto(aString) ==
    CompileBegin(aString, ucode, IF nCompiles > 0 THEN CompileRecord ELSE NoCompile)

\* a variant of CompileLoopExit: the end-of-input check made first
CompileLoopExitEndFirst(pendingError, parseFinished, token) ==
    IF parseFinished \/ token = "G_ENDS" THEN "break"
    ELSE IF pendingError THEN "return false"
    ELSE "continue"

\* a variant of CompileLoopExit: the pending-error check left out
CompileLoopExitNoErrorCheck(pendingError, parseFinished, token) ==
    IF parseFinished \/ token = "G_ENDS" THEN "break"
    ELSE "continue"

\* what the loop of Compile does after the parser step of a token
CompileLoopExit(pendingError, parseFinished, token) ==
    IF pendingError THEN "return false"
    ELSE IF parseFinished \/ token = "G_ENDS" THEN "break"
    ELSE "continue"

\* the rest of one iteration of the loop of Compile once Parse has returned
\* pr for the token lx read at srcPos: the parser's error report, the
\* pending-error check and the end-of-input check.  st1 and log1 are the
\* error slot and the log after getToken.
TokenParsed(lx, srcPos, st1, log1, pr) ==
    LET st2    == IF pr.err
                  THEN reportError("CST_PARSE", Msg("syntax", <<>>), -1, srcPos)
                  ELSE st1
        log2   == Append(log1, Ev("parse", lx.tok.token, srcPos))
                     \o (IF pr.err THEN ReportEvents("CST_PARSE", -1, m_errorCallback)
                                   ELSE <<>>)
        exit   == CompileLoopExit(st2.pendingError, pr.finished, lx.tok.token)
    IN  /\ m_sourcePos' = srcPos
        /\ m_pos' = lx.pos
        /\ m_lexerState' = lx.state
        /\ m_errorStatus' = st2
        /\ m_tree' = pr.tree
        /\ IF exit = "return false"
           THEN /\ pc' = "compiled"
                /\ compileResult' = "false"
                /\ pstack' = pr.ps
                /\ heap' = pr.heap
                /\ m_parseFinished' = pr.finished
                /\ log' = log2
                /\ UNCHANGED <<stack, ucode>>
           ELSE IF exit = "break"
           THEN /\ pstack' = <<>>
                /\ m_parseFinished' = TRUE
                /\ EnterGenerate(ucode, pr.tree, pr.heap, log2)
           ELSE /\ pc' = "lex"
                /\ pstack' = pr.ps
                /\ heap' = pr.heap
                /\ m_parseFinished' = pr.finished
                /\ log' = log2
                /\ UNCHANGED <<stack, ucode, compileResult>>

\* the iteration once getToken has returned lx for the text at srcPos: the
\* lexer's error report, then Parse
TokenLexed(lx, srcPos) ==
    TokenParsed(lx, srcPos,
                IF lx.err
                THEN reportError("CST_PARSE", Msg("char", <<lx.ch>>), -1, srcPos)
                ELSE m_errorStatus,
                Append(log, Ev("token", lx.tok.token, srcPos))
                    \o (IF lx.err THEN ReportEvents("CST_PARSE", -1, m_errorCallback)
                                  ELSE <<>>),
                Parse(pstack, heap, m_tree, m_parseFinished, lx.tok, srcPos))

\* one iteration of the do-while loop of Compile: getToken, Parse, the
\* pending-error check and the end-of-input check
TokenStep ==
    /\ pc = "lex"
    /\ TokenLexed(getToken(m_str, m_pos, m_lexerState), m_pos)
    /\ UNCHANGED <<m_str, m_errorCallback, pfctx, nCompiles, prevCompile, drc>>
    /\ UNCHANGED runVars
    /\ UNCHANGED run2Vars

\* the effect of one iteration g of the generateUCode loop on the compiler
GenCommit(g) ==
    /\ heap' = g.heap
    /\ stack' = g.stack
    /\ ucode' = g.ucode
    /\ pfctx' = g.pf
    /\ m_errorStatus' = ApplyReports(m_errorStatus, g.reps, m_sourcePos)
    /\ log' = log \o g.pre \o ReportsLog(g.reps, m_errorCallback)
    /\ IF g.stack = <<>>
       THEN pc' = "compiled" /\ compileResult' = "true"
       ELSE pc' = "gen" /\ compileResult' = compileResult

\* one iteration of the work-stack loop of generateUCode; generateUCode
\* returns true when the stack is empty
GenStep ==
    /\ pc = "gen"
    /\ stack # <<>>
    /\ GenCommit(GenIteration(heap, stack, ucode, pfctx))
    /\ UNCHANGED <<m_parseFinished, m_tree, m_errorCallback, pstack, nCompiles, prevCompile, drc>>
    /\ UNCHANGED lexVars
    /\ UNCHANGED runVars
    /\ UNCHANGED run2Vars

\* ------------------------------------------------------------------------
\* UCODE::Run
\* ------------------------------------------------------------------------
\* the caller runs the program of a successful Compile on a new CONTEXT
RunCall ==
    /\ pc \in {"compiled", "ran"}
    /\ compileResult = "true"
    /\ nRuns < MaxRuns
    /\ nRuns' = nRuns + 1
    /\ pc' = "run"
    /\ ip' = 1
    /\ \E callbackSet \in BOOLEAN : ctx' = [NewContext EXCEPT !.callbackSet = callbackSet]
    /\ runResult' = NullValue
    /\ UNCHANGED <<m_parseFinished, m_tree, m_errorStatus, m_errorCallback, heap, pstack,
                   stack, ucode, compileResult, pfctx, nCompiles, log, prevCompile, drc>>
    /\ UNCHANGED lexVars
    /\ UNCHANGED run2Vars

\* a variant of ProgramAfterExec: push-literal hands its VALUE over to the
\* context and keeps none
ProgramAfterExecRelease(code, i) ==
    IF i <= Len(code) /\ code[i].op = "TR_UOP_PUSH_VALUE"
    THEN [code EXCEPT ![i].value = NullValue]
    ELSE code

\* the program after UOP::Exec of instruction i: Exec writes no member of
\* the UOP, push-literal pushes the pointer m_value.get() and keeps the VALUE
ProgramAfterExec(code, i) == code

\* a variant of NextInstruction: the instruction after one that reported an
\* error is skipped
NextInstructionSkipAfterError(i, c) ==
    IF c.error.pendingError THEN i + 2 ELSE i + 1

\* for( UOP* op : m_ucode ): the instruction after instruction i, whatever
\* Exec left in the context c
NextInstruction(i, c) == i + 1

\* one iteration of the loop of Run, or the final pop after the last one
RunStep ==
    /\ pc = "run"
    /\ IF ip <= Len(ucode)
       THEN LET r == Exec(ucode[ip], ctx)
            IN  /\ ctx' = r.ctx
                /\ ip' = NextInstruction(ip, r.ctx)
                /\ pc' = IF r.fault THEN "fault" ELSE "run"
                /\ runResult' = runResult
       ELSE IF ctx.stack = <<>>
            THEN /\ pc' = "fault"
                 /\ UNCHANGED <<ctx, ip, runResult>>
            ELSE /\ pc' = "ran"
                 /\ runResult' = ctx.stack[Len(ctx.stack)]
                 /\ ctx' = [ctx EXCEPT !.stack = SubSeq(@, 1, Len(@) - 1)]
                 /\ ip' = ip
    /\ ucode' = ProgramAfterExec(ucode, ip)
    /\ UNCHANGED <<m_parseFinished, m_tree, m_errorStatus, m_errorCallback, heap, pstack,
                   stack, compileResult, pfctx, nCompiles, nRuns, log, prevCompile, drc>>
    /\ UNCHANGED lexVars
    /\ UNCHANGED run2Vars

\* a second caller starts Run on the same program with a CONTEXT of its
\* own, while or after the first evaluation runs
RunCall2 ==
    /\ pc \in {"run", "ran"}
    /\ compileResult = "true"
    /\ pc2 = "idle"
    /\ pc2' = "run"
    /\ ip2' = 1
    /\ ctx2' = NewContext
    /\ runResult2' = NullValue
    /\ UNCHANGED <<pc, m_parseFinished, m_tree, m_errorStatus, m_errorCallback, heap, pstack,
                   stack, ucode, compileResult, pfctx, nCompiles, log, prevCompile, drc>>
    /\ UNCHANGED lexVars
    /\ UNCHANGED runVars

\* one iteration of the loop of Run of the second evaluation, or its final pop
RunStep2 ==
    /\ pc2 = "run"
    /\ IF ip2 <= Len(ucode)
       THEN LET r == Exec(ucode[ip2], ctx2)
            IN  /\ ctx2' = r.ctx
                /\ ip2' = NextInstruction(ip2, r.ctx)
                /\ pc2' = IF r.fault THEN "fault" ELSE "run"
                /\ runResult2' = runResult2
       ELSE IF ctx2.stack = <<>>
            THEN /\ pc2' = "fault"
                 /\ UNCHANGED <<ctx2, ip2, runResult2>>
            ELSE /\ pc2' = "ran"
                 /\ runResult2' = ctx2.stack[Len(ctx2.stack)]
                 /\ ctx2' = [ctx2 EXCEPT !.stack = SubSeq(@, 1, Len(@) - 1)]
                 /\ ip2' = ip2
    /\ ucode' = ProgramAfterExec(ucode, ip2)
    /\ UNCHANGED <<pc, m_parseFinished, m_tree, m_errorStatus, m_errorCallback, heap, pstack,
                   stack, compileResult, pfctx, nCompiles, log, prevCompile, drc>>
    /\ UNCHANGED lexVars
    /\ UNCHANGED runVars

Next ==
    \/ \E aString \in (IF nCompiles = 0 THEN Sources ELSE ReTexts) : CompileCall(aString)
    \/ TokenStep
    \/ GenStep
    \/ RunCall
    \/ RunStep
    \/ RunCall2
    \/ RunStep2

Spec == Init /\ [][Next]_vars

\* ------------------------------------------------------------------------
\* DRC_TEST_PROVIDER_ANNULUS::Run on a board
\* ------------------------------------------------------------------------
compilerVars == <<pc, m_str, m_pos, m_lexerState, m_sourcePos, m_parseFinished, m_tree,
                  m_errorStatus, m_errorCallback, heap, pstack, stack, ucode,
                  compileResult, pfctx, ctx, ip, runResult, nCompiles, nRuns, log, pc2,
                  ctx2, ip2, runResult2, prevCompile>>

AnnulusInit ==
    /\ pc = "idle"
    /\ m_str = <<>>
    /\ m_pos = 0
    /\ m_lexerState = "LS_DEFAULT"
    /\ m_sourcePos = 0
    /\ m_parseFinished = FALSE
    /\ m_tree = 0
    /\ m_errorStatus = NoError
    /\ m_errorCallback = FALSE
    /\ heap = <<>>
    /\ pstack = <<>>
    /\ stack = <<>>
    /\ ucode = <<>>
    /\ compileResult = "none"
    /\ pfctx = NewContext
    /\ ctx = NewContext
    /\ ip = 0
    /\ runResult = NullValue
    /\ nCompiles = 0
    /\ nRuns = 0
    /\ log = <<>>
    /\ pc2 = "idle"
    /\ ctx2 = NewContext
    /\ ip2 = 0
    /\ runResult2 = NullValue
    /\ prevCompile = NoCompile
    /\ \E hasRules \in BOOLEAN, items \in Boards :
          drc = [DrcIdle EXCEPT !.hasRules = hasRules, !.items = items]

\* Run up to forEachGeometryItem: without an annulus rule it returns false
\* and checks nothing
AnnulusRun ==
    /\ drc.pc = "idle"
    /\ drc' = IF ~drc.hasRules
              THEN [drc EXCEPT !.pc = "done", !.result = "false"]
              ELSE [drc EXCEPT !.pc = "items"]
    /\ UNCHANGED compilerVars

\* forEachGeometryItem hands the next item to checkAnnulus.  After a report
\* checkAnnulus returns false when isErrorLimitExceeded says so; neither that
\* answer nor what forEachGeometryItem does with the false is in this file,
\* so stop ranges over both outcomes: the iteration ends here or goes on.
AnnulusItem(stop) ==
    /\ drc.pc = "items"
    /\ drc.handed < Len(drc.items)
    /\ LET k == drc.handed + 1
           r == checkAnnulus(drc.items[k])
       IN  drc' = [drc EXCEPT
                     !.handed = k,
                     !.reports = IF r.report THEN Append(@, [item |-> k, kind |-> r.kind])
                                 ELSE @,
                     !.pc = IF r.report /\ stop THEN "stopped" ELSE "items"]
    /\ UNCHANGED compilerVars

\* the end of Run: reportRuleStatistics, return true
AnnulusEnd ==
    /\ \/ drc.pc = "items" /\ drc.handed = Len(drc.items)
       \/ drc.pc = "stopped"
    /\ drc' = [drc EXCEPT !.pc = "done", !.result = "true"]
    /\ UNCHANGED compilerVars

AnnulusNext ==
    \/ AnnulusRun
    \/ \E stop \in BOOLEAN : AnnulusItem(stop)
    \/ AnnulusEnd

AnnulusSpec == AnnulusInit /\ [][AnnulusNext]_vars

\* ------------------------------------------------------------------------
\* Compile calls that are all given the same UCODE
\* ------------------------------------------------------------------------
AppendTexts ==
    { <<>>, <<"1">>, <<"1", "+", "2">>, <<"'", "x", "'">>, <<"a", ".", "a">>,
      <<"a", ".", "g", "(", "2", ")">>, <<"!", "1">>, <<"1", "+">>, <<"#">> }

AppendNext ==
    \/ \E aString \in AppendTexts : CompileInto(aString)
    \/ TokenStep
    \/ GenStep

AppendSpec == Init /\ [][AppendNext]_vars

\* ------------------------------------------------------------------------
\* generateUCode on its own: the work-stack loop started on any small tree
\* ------------------------------------------------------------------------
\* a tree is a sequence of TREE_NODEs with the root last; TreePos stands for
\* the source offset of its nodes
TreePos == 4

TreeLeaf(op, str) == <<newNode(op, TRUE, str, -1, TreePos)>>

ShiftTree(t, k) ==
    [i \in DOMAIN t |-> [t[i] EXCEPT !.leaf0 = IF @ = 0 THEN 0 ELSE @ + k,
                                     !.leaf1 = IF @ = 0 THEN 0 ELSE @ + k]]

\* a node op with the roots of l and r as leaf[0] and leaf[1]
TreeJoin(op, l, r) ==
    l \o ShiftTree(r, Len(l))
      \o <<[newNode(op, FALSE, <<>>, -1, TreePos)
               EXCEPT !.leaf0 = Len(l), !.leaf1 = Len(l) + Len(r)]>>

\* a node op with the root of l as leaf[0] and no leaf[1]
TreeUnary(op, l) ==
    Append(l, [newNode(op, FALSE, <<>>, -1, TreePos) EXCEPT !.leaf0 = Len(l)])

NameLeaves == { TreeLeaf("TR_IDENTIFIER", <<"a">>), TreeLeaf("TR_IDENTIFIER", <<"b">>) }

TreeLeaves ==
    NameLeaves \cup { TreeLeaf("TR_NUMBER", <<"1">>), TreeLeaf("TR_STRING", <<"x">>) }

CallTrees ==
    { TreeJoin("TR_OP_FUNC_CALL", TreeLeaf("TR_IDENTIFIER", f), p) :
        f \in { <<"f">>, <<"g">>, <<"h">> }, p \in TreeLeaves }

\* struct-ref nodes: the right child an identifier, a function call, or
\* something else
RefTrees ==
    { TreeJoin("TR_STRUCT_REF", l, r) : l \in NameLeaves, r \in TreeLeaves \cup CallTrees }

SmallTrees ==
    TreeLeaves \cup RefTrees \cup { TreeUnary("TR_OP_BOOL_NOT", l) : l \in TreeLeaves }

GenTrees ==
    SmallTrees \cup { TreeJoin("TR_OP_ADD", l, r) : l \in SmallTrees, r \in SmallTrees }

\* the state at the entry of the loop of generateUCode, the tree prepared and
\* its root pushed on the work stack
GenInit ==
    /\ pc = "gen"
    /\ m_str = <<>>
    /\ m_pos = 0
    /\ m_lexerState = "LS_DEFAULT"
    /\ m_sourcePos = 0
    /\ m_parseFinished = TRUE
    /\ \E t \in GenTrees :
          /\ m_tree = Len(t)
          /\ heap = prepareTree(t, Len(t))
          /\ stack = <<Len(t)>>
    /\ m_errorStatus = NoError
    /\ m_errorCallback = FALSE
    /\ pstack = <<>>
    /\ ucode = <<>>
    /\ compileResult = "none"
    /\ pfctx = NewContext
    /\ ctx = NewContext
    /\ ip = 0
    /\ runResult = NullValue
    /\ nCompiles = 1
    /\ nRuns = 0
    /\ log = <<Ev("generate", "tree", 0)>>
    /\ pc2 = "idle"
    /\ ctx2 = NewContext
    /\ ip2 = 0
    /\ runResult2 = NullValue
    /\ prevCompile = NoCompile
    /\ drc = DrcIdle

GenNext == GenStep

GenSpec == GenInit /\ [][GenNext]_vars

\* ------------------------------------------------------------------------
\* Properties
\* ------------------------------------------------------------------------
IsReport(e) == e.ev = "report"

IsCallback(e) == e.ev = "callback"

IsToken(e) == e.ev = "token"

IsParse(e) == e.ev = "parse"

IsGenerate(e) == e.ev = "generate"

Count(Test(_)) == Len(SelectSeq(log, Test))

CodeGenReported == \E i \in DOMAIN log : IsReport(log[i]) /\ log[i].a = "CST_CODEGEN"

\* the numeric coercion of a popped operand
Coerce(v) == IF v.type = "null" THEN Num(0) ELSE v.num

\* C1: when Run has executed every instruction of a compiled program on a
\* context that started empty, exactly one value is on the operand stack
\* before the final pop.
C1_StackBalance == (pc = "run" /\ ip > Len(ucode)) => Len(ctx.stack) = 1

C1_Witness ==
    /\ pc = "run" /\ ip > Len(ucode) /\ Len(ctx.stack) = 1
    /\ \E i \in DOMAIN ucode : ucode[i].op = "TR_OP_METHOD_CALL"
    /\ \E i \in DOMAIN ucode : ucode[i].op \in BinaryOps

\* C2: once the generator has reported a CodeGen error, generation has
\* stopped, Compile has returned failure and the program holds no instruction.
C2_CodeGenErrorAborts ==
    CodeGenReported => (pc = "compiled" /\ compileResult = "false" /\ ucode = <<>>)

\* C3: Compile of the empty text succeeds with the one instruction push 1.0,
\* reads no token and takes no parser step, and Run returns numeric 1.0.
C3_EmptyCompiles ==
    (nCompiles >= 1 /\ m_str = <<>>) =>
        /\ pc \in {"compiled", "run", "ran"}
        /\ compileResult = "true"
        /\ ucode = <<MkUop("TR_UOP_PUSH_VALUE", NumValue(Num(1)), NullRef, <<>>)>>
        /\ Count(IsToken) = 0
        /\ Count(IsParse) = 0
        /\ (pc = "ran" => runResult = NumValue(Num(1)))

C3_Witness == nCompiles >= 1 /\ m_str = <<>> /\ pc = "ran" /\ runResult = NumValue(Num(1))

\* the text is one item.prop reference: where the item and the property start
RefTokens == <<"G_IDENTIFIER", "G_STRUCT_REF", "G_IDENTIFIER", "G_ENDS">>

IsRefText ==
    LET toks == SelectSeq(log, IsToken)
    IN  Len(toks) = 4 /\ \A i \in 1..4 : toks[i].a = RefTokens[i]

RefItemStart == SkipSpaces(m_str, 0)

RefItem == GetChars(m_str, RefItemStart, IsIdentChar)

RefPropStart == SkipSpaces(m_str, SkipSpaces(m_str, RefItemStart + Len(RefItem)) + 1)

RefProp == GetChars(m_str, RefPropStart, IsIdentChar)

\* C4: after the generator has handled an item.prop expression, the error
\* slot names the item at the offset of the item when the resolver knows no
\* such item, names the property at the offset of the property when only the
\* property is unknown, both with stage CodeGen, and is not set otherwise.
C4_RefErrorPositions ==
    (pc = "compiled" /\ IsRefText /\ Count(IsGenerate) = 1) =>
        IF RefItem \notin KnownItems
        THEN m_errorStatus = [pendingError |-> TRUE, stage |-> "CST_CODEGEN",
                              message |-> Msg("item", RefItem), srcPos |-> RefItemStart]
        ELSE IF RefProp \notin KnownProps
        THEN m_errorStatus = [pendingError |-> TRUE, stage |-> "CST_CODEGEN",
                              message |-> Msg("property", RefProp), srcPos |-> RefPropStart]
        ELSE ~m_errorStatus.pendingError

C4_Witness ==
    /\ pc = "compiled" /\ IsRefText /\ Count(IsGenerate) = 1
    /\ m_errorStatus.pendingError
    /\ m_errorStatus.message.kind = "property"
    /\ m_errorStatus.srcPos = RefPropStart
    /\ RefPropStart >= 3
    /\ RefItemStart >= 1

\* C5: every preflight of a resolved function call raises a CodeGen error
\* exactly when the host function reported an error during that preflight.
C5_PreflightErrorIffHostError ==
    \A i \in DOMAIN log :
        log[i].ev = "preflight" => ((log[i].a = "hosterror") <=> (log[i].b = 1))

\* C6: a Compile call that follows a failed one starts with no pending
\* error, and a valid expression compiled by it succeeds.
C6_NextCompileStartsClean ==
    /\ (nCompiles >= 2 /\ pc = "lex" /\ log = <<>>) => ~m_errorStatus.pendingError
    /\ (nCompiles >= 2 /\ pc = "compiled" /\ m_str = <<"1">>) => compileResult = "true"

\* C7: within one Compile call reportError is called at most once and the
\* error callback is invoked at most once.
C7_AtMostOneReport == Count(IsReport) <= 1 /\ Count(IsCallback) <= 1

\* C8: once the tokenizer or the parser has reported an error, Compile has
\* returned failure after the parser step of that token: no token is read
\* afterwards, generateUCode is not entered and the program stays empty.
C8_LexParseErrorStops ==
    \A i \in DOMAIN log :
        (IsReport(log[i]) /\ log[i].a = "CST_PARSE") =>
            /\ pc = "compiled"
            /\ compileResult = "false"
            /\ ucode = <<>>
            /\ Count(IsGenerate) = 0
            /\ Count(IsParse) = Count(IsToken)
            /\ \A j \in DOMAIN log : j > i => ~IsToken(log[j])

C8_Witness ==
    /\ pc = "compiled" /\ compileResult = "false"
    /\ m_errorStatus.message.kind = "char"
    /\ Count(IsToken) >= 2
    /\ Count(IsReport) = 1

\* the step is not one of the second evaluation of the program
FirstEvaluationSteps == pc2' = pc2 /\ ip2' = ip2

\* C9: a binary opcode replaces the two topmost values a (pushed first) and
\* b (pushed second) by one numeric value, which is a-b, a/b, a<b, a>b, a<=b,
\* a>=b for the respective opcode.
C9_OperandOrder ==
    [][ (pc = "run" /\ ip <= Len(ucode) /\ ucode[ip].op \in BinaryOps /\ Len(ctx.stack) >= 2
           /\ FirstEvaluationSteps) =>
          LET n  == Len(ctx.stack)
              a  == Coerce(ctx.stack[n - 1])
              b  == Coerce(ctx.stack[n])
              op == ucode[ip].op
              r  == ctx'.stack[n - 1]
          IN  /\ Len(ctx'.stack) = n - 1
              /\ SubSeq(ctx'.stack, 1, n - 2) = SubSeq(ctx.stack, 1, n - 2)
              /\ r.type = "num"
              /\ (op = "TR_OP_SUB" => r.num = DSub(a, b))
              /\ (op = "TR_OP_DIV" => r.num = DDiv(a, b))
              /\ (op = "TR_OP_LESS" => r.num = Bool(DLess(a, b)))
              /\ (op = "TR_OP_GREATER" => r.num = Bool(DLess(b, a)))
              /\ (op = "TR_OP_LESS_EQUAL" => r.num = Bool(DLess(a, b) \/ DEq(a, b)))
              /\ (op = "TR_OP_GREATER_EQUAL" => r.num = Bool(DLess(b, a) \/ DEq(a, b)))
      ]_vars

C9_Witness ==
    /\ pc = "run" /\ ip = 4
    /\ ucode[1].value = NumValue(Num(1))
    /\ ucode[2].value = NumValue(Num(2))
    /\ ucode[3].op = "TR_OP_SUB"
    /\ ctx.stack = <<NumValue(Num(-1))>>

\* Value-level equality of two operands: both present and of one type,
\* numbers equal by value, texts equal by content
ValueEqual(a, b) ==
    \/ a.type = "num" /\ b.type = "num" /\ DEq(a.num, b.num)
    \/ a.type = "str" /\ b.type = "str" /\ a.str = b.str

\* C10: a relational, equality or logical opcode pushes 1.0 or 0.0; it is
\* 1.0 exactly when the relation holds of the numeric coercions (relational),
\* of the values (== and, negated, !=), or of the nonzero tests (&&, ||).
C10_BooleanResults ==
    [][ (pc = "run" /\ ip <= Len(ucode) /\ Len(ctx.stack) >= 2
           /\ ucode[ip].op \in BinaryOps \ {"TR_OP_ADD", "TR_OP_SUB", "TR_OP_MUL", "TR_OP_DIV"}
           /\ FirstEvaluationSteps) =>
          LET n  == Len(ctx.stack)
              x  == ctx.stack[n - 1]
              y  == ctx.stack[n]
              op == ucode[ip].op
              r  == ctx'.stack[Len(ctx'.stack)]
              holds == CASE op = "TR_OP_LESS" -> DLess(Coerce(x), Coerce(y))
                         [] op = "TR_OP_GREATER" -> DLess(Coerce(y), Coerce(x))
                         [] op = "TR_OP_LESS_EQUAL" -> DLessEq(Coerce(x), Coerce(y))
                         [] op = "TR_OP_GREATER_EQUAL" -> DLessEq(Coerce(y), Coerce(x))
                         [] op = "TR_OP_EQUAL" -> ValueEqual(x, y)
                         [] op = "TR_OP_NOT_EQUAL" -> ~ValueEqual(x, y)
                         [] op = "TR_OP_BOOL_AND" -> DNonZero(Coerce(x)) /\ DNonZero(Coerce(y))
                         [] op = "TR_OP_BOOL_OR" -> DNonZero(Coerce(x)) \/ DNonZero(Coerce(y))
          IN  /\ r \in {NumValue(Num(0)), NumValue(Num(1))}
              /\ (r = NumValue(Num(1))) <=> holds
      ]_vars

C10_Witness ==
    /\ pc = "run" /\ ip = 4
    /\ ucode[1].value = StrValue(<<"x">>)
    /\ ucode[2].value = StrValue(<<"y">>)
    /\ ucode[3].op = "TR_OP_NOT_EQUAL"
    /\ ctx.stack = <<NumValue(Num(1))>>

\* the kinds of the tokens read by the current Compile call, in order
TokenKinds ==
    LET toks == SelectSeq(log, IsToken)
    IN  [i \in 1..Len(toks) |-> toks[i].a]

PushVar(ref) == MkUop("TR_UOP_PUSH_VAR", NullValue, ref, <<>>)

PushLiteral(x) == MkUop("TR_UOP_PUSH_VALUE", NumValue(x), NullRef, <<>>)

LiteralStart == SkipSpaces(m_str, 0)

LiteralText == extractNumber(m_str, LiteralStart).text

LiteralUnit == resolveUnits(m_str, SkipSpaces(m_str, extractNumber(m_str, LiteralStart).pos)).id

\* C12: the program compiled from a number followed by a unit is the one
\* instruction push-literal of the number times the factor of the unit; the
\* program compiled from a number alone is push-literal of the number.
C12_NumberLiteral ==
    (pc = "compiled" /\ compileResult = "true") =>
        /\ (TokenKinds = <<"G_VALUE", "G_UNIT", "G_ENDS">> =>
              ucode = <<PushLiteral(DMul(wxAtof(LiteralText), Num(UnitFactor(LiteralUnit))))>>)
        /\ (TokenKinds = <<"G_VALUE", "G_ENDS">> =>
              ucode = <<PushLiteral(wxAtof(LiteralText))>>)

C12_Witness ==
    /\ pc = "compiled" /\ compileResult = "true"
    /\ TokenKinds = <<"G_VALUE", "G_UNIT", "G_ENDS">>
    /\ m_str = <<"2", "m", "m">>
    /\ ucode = <<PushLiteral(Num(2000))>>

UnitLists == { SupportedUnits,
               << <<"'">>, <<"'", "'">> >>,
               << <<"'", "'">>, <<"'">> >> }

\* the name u stands at offset p of the text and is followed by the end of
\* the text or by a character that is not alphanumeric
UnitStandsAt(u, p) ==
    /\ p + Len(u) <= Len(m_str)
    /\ SubSeq(m_str, p + 1, p + Len(u)) = u
    /\ (p + Len(u) = Len(m_str) \/ m_str[p + Len(u) + 1] \notin (Digits \cup Alphas))

\* C14: at every offset of the text resolveUnits returns a unit only when
\* its name stands there followed by the end of the text or by a
\* non-alphanumeric character, with the cursor moved past the name, and
\* leaves the cursor where it was otherwise; every UNIT token read is such a
\* name.
C14_UnitNeedsBoundary ==
    /\ \A units \in UnitLists : \A p \in 0..Len(m_str) :
          LET r == resolveUnitsIn(units, m_str, p, 0)
          IN  IF r.id >= 0
              THEN UnitStandsAt(units[r.id + 1], p) /\ r.pos = p + Len(units[r.id + 1])
              ELSE r.pos = p
    /\ \A i \in DOMAIN log :
          (IsToken(log[i]) /\ log[i].a = "G_UNIT") =>
              \E j \in DOMAIN SupportedUnits :
                  UnitStandsAt(SupportedUnits[j], SkipSpaces(m_str, log[i].b))

C14_Witness ==
    /\ m_str = <<"m", "m", "a">>
    /\ pc = "compiled"
    /\ TokenKinds[1] = "G_IDENTIFIER"
    /\ resolveUnits(m_str, 0) = [id |-> -1, pos |-> 0]

\* C15: when several names of the unit list stand at an offset of the text,
\* resolveUnits returns one of the longest of them.
C15_LongestUnitWins ==
    \A units \in UnitLists : \A p \in 0..Len(m_str) :
        LET matching == {i \in DOMAIN units : UnitStandsAt(units[i], p)}
            r        == resolveUnitsIn(units, m_str, p, 0)
        IN  Cardinality(matching) >= 2 =>
                /\ r.id >= 0
                /\ \A i \in matching : Len(units[i]) <= Len(units[r.id + 1])

\* C16: when the error slot holds the unrecognized-character error reported
\* by the current Compile call, its offset is an offset of the text and the
\* character of the text at that offset is the character of the message.
C16_LexicalErrorOffset ==
    (Count(IsReport) >= 1 /\ m_errorStatus.pendingError
        /\ m_errorStatus.message.kind = "char") =>
        /\ m_errorStatus.stage = "CST_PARSE"
        /\ m_errorStatus.srcPos \in 0..(Len(m_str) - 1)
        /\ m_errorStatus.message.arg = <<m_str[m_errorStatus.srcPos + 1]>>

\* C17: when a host function called by Run reports an error, the error slot
\* of the runtime context becomes pending with stage Runtime and offset -1,
\* the callback of the context is invoked once if it is set and not
\* otherwise, the error slot of the compiler is left alone and Run goes on.
C17_RuntimeErrorReport ==
    [][ (pc = "run" /\ ip <= Len(ucode) /\ Len(ctx.stack) >= 1
           /\ ucode[ip].op = "TR_OP_METHOD_CALL" /\ ucode[ip].func # <<>>
           /\ HostRejects(ucode[ip].func, ctx.stack[Len(ctx.stack)])
           /\ FirstEvaluationSteps) =>
          /\ ctx'.error.pendingError
          /\ ctx'.error.stage = "CST_RUNTIME"
          /\ ctx'.error.srcPos = -1
          /\ ctx'.callbacks = ctx.callbacks + (IF ctx.callbackSet THEN 1 ELSE 0)
          /\ m_errorStatus' = m_errorStatus
          /\ pc' = "run"
          /\ ip' = ip + 1
      ]_vars

C17_Witness ==
    /\ pc = "ran"
    /\ ctx.error.pendingError /\ ctx.error.stage = "CST_RUNTIME"
    /\ ctx.callbackSet /\ ctx.callbacks = 1
    /\ ~m_errorStatus.pendingError
    /\ runResult = NumValue(Num(0))

\* what Run returns on program code from instruction i and context c when
\* nothing else runs: [pc, result]
RECURSIVE RunAlone(_, _, _)
RunAlone(code, i, c) ==
    IF i <= Len(code)
    THEN LET r == Exec(code[i], c)
         IN  IF r.fault THEN [pc |-> "fault", result |-> NullValue]
             ELSE RunAlone(code, i + 1, r.ctx)
    ELSE IF c.stack = <<>> THEN [pc |-> "fault", result |-> NullValue]
         ELSE [pc |-> "ran", result |-> c.stack[Len(c.stack)]]

\* C18: while two evaluations of one program are under way, each on its own
\* context, no step of either changes the program, and an evaluation that
\* ends returns what Run returns on that program when it runs alone.
C18_SharedProgramEvaluations ==
    [][ (pc2 # "idle" /\ (pc = "run" \/ pc2 = "run")) =>
          /\ ucode' = ucode
          /\ (pc' \in {"ran", "fault"} =>
                [pc |-> pc', result |-> runResult'] = RunAlone(ucode, 1, NewContext))
          /\ (pc2' \in {"ran", "fault"} =>
                [pc |-> pc2', result |-> runResult2'] = RunAlone(ucode, 1, NewContext))
      ]_vars

C18_Witness ==
    /\ pc = "run" /\ pc2 = "run"
    /\ Len(ucode) >= 3
    /\ ip = 3 /\ ip2 = 2
    /\ ucode[3].op \in BinaryOps
    /\ Len(ctx.stack) = 2 /\ Len(ctx2.stack) = 1

\* the kind of the token the last getToken of the current Compile call returned
LastToken(l) == SelectSeq(l, IsToken)[Len(SelectSeq(l, IsToken))].a

\* C19: every iteration of the token loop of Compile moves the cursor
\* forward, by at least one character and not beyond one past the end of the
\* text, or reads the end-of-input token; after the end-of-input token or
\* with an error pending the loop is left.
C19_TokenLoopTerminates ==
    [][ pc = "lex" =>
          /\ (m_pos' > m_pos \/ LastToken(log') = "G_ENDS")
          /\ m_pos' <= Len(m_str) + 1
          /\ ((LastToken(log') = "G_ENDS" \/ m_errorStatus'.pendingError) => pc' # "lex")
      ]_vars

C19_Witness ==
    /\ pc = "lex"
    /\ Count(IsToken) = 2
    /\ m_pos = Len(m_str)
    /\ Len(m_str) = 3
    /\ ~m_errorStatus.pendingError

\* the work stack after: a child of the top node that was not visited is
\* pushed on the work stack before
PushesChild(hp, before, after) ==
    /\ Len(after) = Len(before) + 1
    /\ SubSeq(after, 1, Len(before)) = before
    /\ after[Len(after)] \in {hp[before[Len(before)]].leaf0, hp[before[Len(before)]].leaf1} \ {0}
    /\ ~hp[after[Len(after)]].isVisited

\* the top node of the work stack before is no longer on the work stack
\* after (nodes below it stay)
PopsTop(before, after) ==
    /\ Len(after) >= Len(before) - 1
    /\ SubSeq(after, 1, Len(before) - 1) = SubSeq(before, 1, Len(before) - 1)
    /\ \A i \in DOMAIN after : after[i] # before[Len(before)]

\* C20: every iteration of the work-stack loop of generateUCode either
\* pushes a child that was not visited or pops the top node, so the loop
\* ends with an empty stack on every finite tree, a struct-ref whose right
\* child is neither an identifier nor a function call included.
C20_GenLoopTerminates ==
    (pc = "gen" /\ stack # <<>>) =>
        \/ PushesChild(heap, stack, GenIteration(heap, stack, ucode, pfctx).stack)
        \/ PopsTop(stack, GenIteration(heap, stack, ucode, pfctx).stack)

\* the instructions of the subtree under node id, in the order the spec
\* gives: a leaf is one push, object.property one push-variable,
\* object.function(arg) the argument and the call, an operator its left
\* subtree, its right subtree, its opcode
RECURSIVE Emitted(_, _)
Emitted(hp, id) ==
    LET node == hp[id]
        l0   == node.leaf0
        l1   == node.leaf1
    IN  CASE node.op = "TR_NUMBER" ->
               <<MkUop("TR_UOP_PUSH_VALUE", NumValue(NumberNodeValue(hp, node)), NullRef, <<>>)>>
          [] node.op = "TR_STRING" ->
               <<MkUop("TR_UOP_PUSH_VALUE", StrValue(node.str), NullRef, <<>>)>>
          [] node.op = "TR_IDENTIFIER" ->
               <<MkUop("TR_UOP_PUSH_VALUE", NullValue, CreateVarRef(node.str, <<>>), <<>>)>>
          [] node.op = "TR_STRUCT_REF" /\ hp[l1].op = "TR_IDENTIFIER" ->
               <<MkUop("TR_UOP_PUSH_VAR", NullValue, CreateVarRef(hp[l0].str, hp[l1].str), <<>>)>>
          [] node.op = "TR_STRUCT_REF" /\ hp[l1].op = "TR_OP_FUNC_CALL" ->
               Emitted(hp, hp[l1].leaf1)
               \o <<MkUop("TR_OP_METHOD_CALL", NullValue, CreateVarRef(hp[l0].str, <<>>),
                          CreateFuncCall(hp[hp[l1].leaf0].str))>>
          [] OTHER ->
               (IF l0 # 0 THEN Emitted(hp, l0) ELSE <<>>)
               \o (IF l1 # 0 THEN Emitted(hp, l1) ELSE <<>>)
               \o <<MkUop(node.op, NumValue(Num(0)), NullRef, <<>>)>>

OperatorOps == BinaryOps \cup UnaryOps

\* C21: for every operator node generateUCode appends the instructions of
\* the left subtree, then those of the right subtree, then the operator's
\* opcode, once: the program of a compiled tree is its post-order.
C21_OperatorPostOrder ==
    (pc = "compiled" /\ compileResult = "true" /\ m_tree # 0) =>
        ucode = Emitted(heap, m_tree)

C21_Witness ==
    /\ pc = "compiled" /\ compileResult = "true" /\ m_tree # 0
    /\ m_str = <<"2", "-", "1", "-", "1">>
    /\ Len(ucode) = 5
    /\ ucode[3].op = "TR_OP_SUB" /\ ucode[5].op = "TR_OP_SUB"
    /\ ucode[1].value = NumValue(Num(2))

\* the text is item.function(literal) with one-character names, the literal
\* a quoted character or a digit
IsCallText ==
    /\ Len(m_str) \in {6, 8}
    /\ isalpha(m_str[1]) /\ m_str[2] = "." /\ isalpha(m_str[3]) /\ m_str[4] = "("
    /\ m_str[Len(m_str)] = ")"
    /\ IF Len(m_str) = 8
       THEN m_str[5] = "'" /\ m_str[7] = "'" /\ m_str[6] # "'"
       ELSE isdigit(m_str[5])

CallTextArgument ==
    IF Len(m_str) = 8 THEN StrValue(<<m_str[6]>>) ELSE NumValue(wxAtof(<<m_str[5]>>))

\* C22: the program of object.function(literal) is the push of the literal
\* followed by one invoke-function instruction that carries the function
\* the host resolved and the receiver reference; the struct-ref node, the
\* receiver and the function name emit nothing.
C22_MethodCallProgram ==
    (pc = "compiled" /\ compileResult = "true" /\ IsCallText) =>
        ucode = << MkUop("TR_UOP_PUSH_VALUE", CallTextArgument, NullRef, <<>>),
                   MkUop("TR_OP_METHOD_CALL", NullValue, CreateVarRef(<<m_str[1]>>, <<>>),
                         CreateFuncCall(<<m_str[3]>>)) >>

C22_Witness ==
    /\ pc = "compiled" /\ compileResult = "true"
    /\ m_str = <<"a", ".", "g", "(", "2", ")">>
    /\ Len(ucode) = 2
    /\ ucode[1].value = NumValue(Num(2))
    /\ ucode[2].op = "TR_OP_METHOD_CALL" /\ ucode[2].func = <<"g">> /\ ucode[2].ref.valid

\* C23: Run executes the instructions of the program one by one in program
\* order, from the first, each once, and returns only after the last, also
\* when the context holds a runtime error; an evaluation ends early only by
\* a fault (null dereference, empty function, empty stack).
C23_LinearPass ==
    [][ /\ (pc # "run" /\ pc' = "run") => ip' = 1
        /\ (pc = "run" /\ FirstEvaluationSteps) =>
              IF ip <= Len(ucode)
              THEN /\ ip' = ip + 1
                   /\ pc' \in {"run", "fault"}
                   /\ ctx' = Exec(ucode[ip], ctx).ctx
                   /\ (pc' = "fault" <=> Exec(ucode[ip], ctx).fault)
              ELSE /\ ip' = ip
                   /\ ip = Len(ucode) + 1
                   /\ pc' \in {"ran", "fault"}
      ]_vars

C23_Witness ==
    /\ pc = "ran"
    /\ ctx.error.pendingError
    /\ Len(ucode) = 4 /\ ip = 5
    /\ ucode[2].op = "TR_OP_METHOD_CALL"
    /\ ucode[4].op = "TR_OP_ADD"
    /\ runResult.type = "num"

\* the offset after the maximal run of letters, digits and underscores
\* that starts at offset p of the text
RECURSIVE IdentifierEnd(_, _)
IdentifierEnd(str, p) ==
    IF p < Len(str) /\ (isalnum(str[p + 1]) \/ str[p + 1] = "_")
    THEN IdentifierEnd(str, p + 1)
    ELSE p

\* the first character of the next token, after the spaces, is a letter or
\* an underscore
LetterAhead ==
    /\ SkipSpaces(m_str, m_pos) < Len(m_str)
    /\ (isalpha(m_str[SkipSpaces(m_str, m_pos) + 1]) \/ m_str[SkipSpaces(m_str, m_pos) + 1] = "_")

\* C24: a token that starts with a letter or an underscore is an identifier
\* and takes the maximal run of letters, digits and underscores, also when
\* the text at the cursor begins with a unit name.
C24_LetterStartsIdentifier ==
    [][ (pc = "lex" /\ LetterAhead) =>
          /\ LastToken(log') = "G_IDENTIFIER"
          /\ m_pos' = IdentifierEnd(m_str, SkipSpaces(m_str, m_pos))
      ]_vars

\* the text has an opening quote at offset q, the next quote stands just
\* before offset e, and payload is what stands between the two
QuotedAt(str, q, e, payload) ==
    /\ q + 2 <= e /\ e <= Len(str)
    /\ str[q + 1] = "'" /\ str[e] = "'"
    /\ \A i \in (q + 2)..(e - 1) : str[i] # "'"
    /\ payload = SubSeq(str, q + 2, e - 1)

\* C25: every getToken call returns with the lexer in default mode, each
\* Compile call starts in default mode, and the payload of a string token is
\* the characters between the opening quote and the next quote, the cursor
\* left just after that closing quote.
C25_StringMode ==
    [][ /\ m_lexerState' = "LS_DEFAULT"
        /\ (pc = "lex" /\ LastToken(log') = "G_STRING") =>
              QuotedAt(m_str, SkipSpaces(m_str, m_pos), m_pos',
                       getToken(m_str, m_pos, m_lexerState).tok.str)
      ]_vars

\* the offset after the maximal run of digits and separators from offset p
\* that holds at most one separator; seen: a separator was passed
RECURSIVE NumberEnd(_, _, _)
NumberEnd(str, p, seen) ==
    IF p >= Len(str) THEN p
    ELSE IF isdigit(str[p + 1]) THEN NumberEnd(str, p + 1, seen)
    ELSE IF str[p + 1] \in {".", ","} /\ ~seen THEN NumberEnd(str, p + 1, TRUE)
    ELSE p

Canonical(str) == [i \in DOMAIN str |-> IF str[i] \in {".", ","} THEN "." ELSE str[i]]

DigitAhead ==
    /\ SkipSpaces(m_str, m_pos) < Len(m_str)
    /\ isdigit(m_str[SkipSpaces(m_str, m_pos) + 1])

\* C26: a numeric token holds at most one decimal separator: the scan ends
\* before a second separator, which is not consumed, and each separator of
\* the token text is replaced by the canonical one.
C26_OneSeparator ==
    [][ (pc = "lex" /\ DigitAhead) =>
          /\ LastToken(log') = "G_VALUE"
          /\ m_pos' = NumberEnd(m_str, SkipSpaces(m_str, m_pos), FALSE)
          /\ getToken(m_str, m_pos, m_lexerState).tok.str
                = Canonical(SubSeq(m_str, SkipSpaces(m_str, m_pos) + 1, m_pos'))
          /\ Cardinality({i \in 1..Len(getToken(m_str, m_pos, m_lexerState).tok.str) :
                             isDecimalSeparator(getToken(m_str, m_pos, m_lexerState).tok.str[i])}) <= 1
      ]_vars

C26_Witness ==
    /\ pc = "lex"
    /\ m_str = <<"1", ",", "5", ".", "2">>
    /\ m_pos = 3
    /\ Count(IsToken) = 1
    /\ LastToken(log) = "G_VALUE"

\* the number an operand of a binary opcode stands for when a null operand
\* counts as 0.0
ZeroIfNull(v) == IF v = NullValue THEN Num(0) ELSE v.num

\* C27: a binary opcode with a null operand reads it as 0.0 in arithmetic,
\* relational and logical opcodes, gives 0.0 for == and 1.0 for !=, and
\* pushes one numeric result without a fault.
C27_NullOperand ==
    [][ (/\ pc = "run" /\ FirstEvaluationSteps
         /\ ip <= Len(ucode) /\ ucode[ip].op \in BinaryOps /\ Len(ctx.stack) >= 2
         /\ NullValue \in {ctx.stack[Len(ctx.stack)], ctx.stack[Len(ctx.stack) - 1]}) =>
          LET n  == Len(ctx.stack)
              a  == ZeroIfNull(ctx.stack[n - 1])
              b  == ZeroIfNull(ctx.stack[n])
              op == ucode[ip].op
              r  == ctx'.stack[n - 1]
          IN  /\ pc' = "run"
              /\ Len(ctx'.stack) = n - 1
              /\ SubSeq(ctx'.stack, 1, n - 2) = SubSeq(ctx.stack, 1, n - 2)
              /\ r.type = "num"
              /\ r.num = CASE op = "TR_OP_ADD" -> DAdd(a, b)
                            [] op = "TR_OP_SUB" -> DSub(a, b)
                            [] op = "TR_OP_MUL" -> DMul(a, b)
                            [] op = "TR_OP_DIV" -> DDiv(a, b)
                            [] op = "TR_OP_LESS" -> Bool(DLess(a, b))
                            [] op = "TR_OP_GREATER" -> Bool(DLess(b, a))
                            [] op = "TR_OP_LESS_EQUAL" -> Bool(DLess(a, b) \/ DEq(a, b))
                            [] op = "TR_OP_GREATER_EQUAL" -> Bool(DLess(b, a) \/ DEq(a, b))
                            [] op = "TR_OP_EQUAL" -> Num(0)
                            [] op = "TR_OP_NOT_EQUAL" -> Num(1)
                            [] op = "TR_OP_BOOL_AND" -> Bool(DNonZero(a) /\ DNonZero(b))
                            [] op = "TR_OP_BOOL_OR" -> Bool(DNonZero(a) \/ DNonZero(b))
      ]_vars

C27_Witness ==
    /\ pc = "ran"
    /\ m_str = <<"a", "!", "=", "a">>
    /\ ucode[1].value = NullValue /\ ucode[2].value = NullValue
    /\ ucode[3].op = "TR_OP_NOT_EQUAL"
    /\ runResult = NumValue(Num(1))

\* C28: executing a unary opcode (boolean not) leaves the operand stack of
\* the context as it was: nothing is popped or pushed, the operand stays on
\* top and is what the later instructions and the result of Run see.
C28_UnaryLeavesStack ==
    [][ /\ (/\ pc = "run" /\ FirstEvaluationSteps
            /\ ip <= Len(ucode) /\ ucode[ip].op \in UnaryOps) =>
              /\ ctx' = ctx
              /\ pc' = "run"
              /\ ip' = ip + 1
        /\ (/\ pc = "run" /\ pc' = "ran"
            /\ Len(ucode) = 2 /\ ucode[1].op = "TR_UOP_PUSH_VALUE"
            /\ ucode[2].op \in UnaryOps) =>
              runResult' = ucode[1].value
      ]_vars

C28_Witness ==
    /\ pc = "ran"
    /\ m_str = <<"!", "1">>
    /\ Len(ucode) = 2 /\ ucode[2].op = "TR_OP_BOOL_NOT"
    /\ runResult = NumValue(Num(1))

IsPrefix(a, b) == Len(a) <= Len(b) /\ SubSeq(b, 1, Len(a)) = a

\* the instructions a successful Compile of the current text adds
Added == IF m_tree = 0 THEN <<EmptyProgramUop>> ELSE Emitted(heap, m_tree)

\* C29: Compile only appends to the program it is given: no step of a
\* Compile call removes or reorders an instruction that is already there,
\* and after a successful Compile the program is what it held at the call
\* followed by the instructions of the new expression.
C29_CompileAppends ==
    /\ IsPrefix(prevCompile.ucode, ucode)
    /\ (pc = "compiled" /\ compileResult = "true") =>
           ucode = prevCompile.ucode \o Added

C29_Witness ==
    /\ pc = "compiled" /\ compileResult = "true"
    /\ nCompiles = 2
    /\ m_str = <<"a", ".", "a">>
    /\ prevCompile.str = <<"1", "+", "2">>
    /\ Len(prevCompile.ucode) = 3
    /\ Len(ucode) = 4
    /\ ucode[3].op = "TR_OP_ADD" /\ ucode[4].op = "TR_UOP_PUSH_VAR"

\* the annulus of item k of the board is outside the limits its constraint
\* sets
AnnulusOutside(k) ==
    LET item    == drc.items[k]
        annulus == CDiv(item.width - item.drill, 2)
    IN  \/ item.hasMin /\ annulus < item.min
        \/ item.hasMax /\ annulus > item.max

ReportsOf(k) == Len(SelectSeq(drc.reports, LAMBDA r : r.item = k))

====
